---- MODULE Spec2Model ----
(***************************************************************************)
(* freebck: the sharded file store (src/src/storage/file.rs), the tree     *)
(* builder (src/src/cmd/backup.rs) and the tree reconstructor              *)
(* (src/src/cmd/restore.rs).                                               *)
(*                                                                         *)
(* A key is a sequence of symbols.  A symbol is a one-character string     *)
(* ("NUL" being the character U+0000), or, for the tail of a SHA-256 hex   *)
(* digest, the pair <<"sha256", data>> (the digest is collision free: its  *)
(* tail stands for the data hashed).                                       *)
(* A path is a sequence of names below the storage root, a name being a    *)
(* sequence of symbols; the collection and tmp directory names are kept    *)
(* as strings.  A path that starts with "/" is absolute (outside the root).*)
(* The content of a file of the store is [msg, val]: raw bytes (a sequence *)
(* of numbers) or a prost message kept decoded ("DirEntry", "Snapshot"),   *)
(* the wire format being outside the program.                              *)
(***************************************************************************)
EXTENDS Integers, Sequences, FiniteSets, TLC

VARIABLES
    fs,         \* the storage root: [dirs: set of paths, files: path -> bytes]
    handle,     \* process -> the RenameOnDropFile it holds, or NoHandle
    wr,         \* store client -> its current write call
    finished,   \* history: [path, data, how] of every write handle released
    calls,      \* history: number of store calls made so far
    lastRead,   \* result of the latest Storage::read of a store client
    src,        \* the backup source tree: path -> [kind, bytes, modified]
    tgt,        \* the restore target tree: path -> [kind, bytes, modified]
    run,        \* backup run -> its state
    rst,        \* the restore run's state
    clock,      \* SystemTime::now() as a unix timestamp
    faults,     \* history: number of I/O errors injected so far
    bf          \* the latest backup_file call made on its own: inputs and result

clientVars == <<handle, wr, finished, calls, lastRead>>
cmdVars == <<src, tgt, run, rst, clock, faults, bf>>
vars == <<fs, handle, wr, finished, calls, lastRead, src, tgt, run, rst, clock, faults, bf>>

(***************************** bounds **************************************)
\* calls (write or read) the store clients make in all
MaxCalls == 3

Writers == {"w1", "w2"}
Collections == {"snapshot", "blob"}
\* keys the store clients use: a snapshot key, a plain key, a key that is too short
StoreKeys == { <<"a", "/", "1">>, <<"k", "e", "y">>, <<"a", "b">> }
\* contents the store clients write
StoreData == { <<1, 2>>, <<2>> }

Runs == {"r1", "r2"}
\* I/O errors injected into one behaviour
MaxFaults == 1
\* context.archive_name
ArchiveName == <<"a">>

NoHandle == [open |-> FALSE]

\* the bytes b as the content of a file
Raw(b) == [msg |-> "raw", val |-> b]

(************************* paths (std::path) *******************************)
RECURSIVE NameLen(_)
NameLen(s) == IF s = <<>> \/ Head(s) = "/" THEN 0 ELSE 1 + NameLen(Tail(s))

\* Path::components of a string: split on '/', empty parts dropped
RECURSIVE Components(_)
Components(s) ==
    IF s = <<>> THEN <<>>
    ELSE IF Head(s) = "/" THEN Components(Tail(s))
    ELSE <<SubSeq(s, 1, NameLen(s))>> \o Components(SubSeq(s, NameLen(s) + 1, Len(s)))

\* PathBuf::join: an absolute argument replaces the base
PathJoin(base, s) ==
    IF s # <<>> /\ Head(s) = "/" THEN <<"/">> \o Components(s)
    ELSE base \o Components(s)

Parent(p) == SubSeq(p, 1, Len(p) - 1)

Prefixes(p) == { SubSeq(p, 1, n) : n \in 0..Len(p) }

IsFile(f, p) == p \in DOMAIN f.files
IsDir(f, p) == p \in f.dirs
\* fs::metadata(p) is Ok
Exists(f, p) == IsFile(f, p) \/ IsDir(f, p)

Remove(fn, k) == [x \in DOMAIN fn \ {k} |-> fn[x]]
\* Op at the value of x: x is evaluated once, before Op is applied to it
Apply(Op(_), x) == CHOOSE y \in { Op(v) : v \in {x} } : TRUE

Put(fn, k, v) == [x \in DOMAIN fn \cup {k} |-> IF x = k THEN v ELSE fn[x]]

\* a name of the path below its first has the character U+0000: the path cannot
\* be given to the operating system (io::ErrorKind::InvalidInput)
HasNul(p) == \E i \in 2..Len(p) : \E j \in 1..Len(p[i]) : p[i][j] = "NUL"

\* fs::create_dir_all: fails when a component of the path is a file
create_dir_all(f, d) ==
    IF \E q \in Prefixes(d) : IsFile(f, q)
    THEN [ok |-> FALSE, fs |-> f]
    ELSE [ok |-> TRUE, fs |-> [f EXCEPT !.dirs = @ \cup (Prefixes(d) \ {<<>>})]]

\* std::fs::rename: replaces an existing file; fails when the source is missing,
\* the target is no path, is a directory, or its parent is not a directory
rename(f, from, to) ==
    IF HasNul(to) THEN [err |-> "InvalidInput", fs |-> f]
    ELSE IF ~IsFile(f, from) THEN [err |-> "NotFound", fs |-> f]
    ELSE IF IsDir(f, to) \/ ~IsDir(f, Parent(to)) THEN [err |-> "Other", fs |-> f]
    ELSE [err |-> "None",
          fs |-> [f EXCEPT !.files = Put(Remove(@, from), to, f.files[from])]]

(************************ storage/file.rs **********************************)
\* one directory for both collections
get_collection_path_shared(collection) == <<"blob">>

get_collection_path(collection) == <<collection>>

\* the path is <collection>/<key[0..2]>/<key[2..]>
get_item_path(collection, key) ==
    IF Len(key) <= 2 THEN [err |-> "InvalidInput", path |-> <<>>]
    ELSE [err |-> "None",
          path |-> PathJoin(PathJoin(get_collection_path(collection), SubSeq(key, 1, 2)),
                            SubSeq(key, 3, Len(key)))]

\* a write that opens the final path itself instead of a temp file
FileStorageWrite_unstaged(f, collection, key, random_name) ==
    LET Open(path, made) ==
            IF Exists(f, path) THEN [res |-> "AlreadyExists", fs |-> f, handle |-> NoHandle]
            ELSE IF ~made.ok THEN [res |-> "Other", fs |-> f, handle |-> NoHandle]
            ELSE [res |-> "Ok",
                  fs |-> [made.fs EXCEPT !.files = Put(@, path, Raw(<<>>))],
                  handle |-> [open |-> TRUE, tmp_path |-> path, new_path |-> path]]
        At(item) ==
            IF item.err # "None" THEN [res |-> item.err, fs |-> f, handle |-> NoHandle]
            ELSE Open(item.path, IF Exists(f, Parent(item.path)) THEN [ok |-> TRUE, fs |-> f]
                                 ELSE create_dir_all(f, Parent(item.path)))
    IN  At(get_item_path(collection, key))

\* FileStorage::write: the handle, or the error
FileStorageWrite(f, collection, key, random_name) ==
    LET Open(path, tmp_path, made) ==
            IF Exists(f, path) THEN [res |-> "AlreadyExists", fs |-> f, handle |-> NoHandle]
            ELSE IF ~made.ok THEN [res |-> "Other", fs |-> f, handle |-> NoHandle]
            ELSE IF IsFile(made.fs, tmp_path)
                 THEN [res |-> "AlreadyExists", fs |-> made.fs, handle |-> NoHandle]
            ELSE [res |-> "Ok",
                  fs |-> [made.fs EXCEPT !.files = Put(@, tmp_path, Raw(<<>>))],
                  handle |-> [open |-> TRUE, tmp_path |-> tmp_path, new_path |-> path]]
        At(item) ==
            IF item.err # "None" THEN [res |-> item.err, fs |-> f, handle |-> NoHandle]
            ELSE Open(item.path, <<"tmp", random_name>>,
                      IF Exists(f, Parent(item.path)) THEN [ok |-> TRUE, fs |-> f]
                      ELSE create_dir_all(f, Parent(item.path)))
    IN  At(get_item_path(collection, key))

\* AsyncWrite::poll_write on the handle: the bytes go to the temp file (an encoded
\* message is written in one piece)
poll_write(f, h, buf) ==
    [f EXCEPT !.files[h.tmp_path] =
        IF buf.msg = "raw" /\ @.msg = "raw" THEN Raw(@.val \o buf.val) ELSE buf]

\* RenameOnDropFile::drop: rename the temp file onto the final path, whatever was
\* written; AlreadyExists is only logged, any other error panics
RenameOnDropFile_drop(f, h) ==
    LET Dropped(r) == [fs |-> r.fs, panic |-> r.err \notin {"None", "AlreadyExists"}]
    IN  Apply(Dropped, rename(f, h.tmp_path, h.new_path))

\* FileStorage::read
FileStorageRead(f, collection, key) ==
    LET At(item) ==
            IF item.err # "None" THEN [res |-> item.err, bytes |-> Raw(<<>>)]
            ELSE IF HasNul(item.path) THEN [res |-> "InvalidInput", bytes |-> Raw(<<>>)]
            ELSE IF IsFile(f, item.path) THEN [res |-> "Ok", bytes |-> f.files[item.path]]
            ELSE IF IsDir(f, item.path) THEN [res |-> "IsADirectory", bytes |-> Raw(<<>>)]
            ELSE IF \E q \in Prefixes(item.path) : IsFile(f, q)
                 THEN [res |-> "NotADirectory", bytes |-> Raw(<<>>)]
            ELSE [res |-> "NotFound", bytes |-> Raw(<<>>)]
    IN  At(get_item_path(collection, key))

\* FileStorage::get_collection_items: every entry of every entry of the collection
\* directory, named <entry name><inner entry name>; an entry that is no directory
\* ends the stream with an error
FileStorageList(f, collection) ==
    LET all == f.dirs \cup DOMAIN f.files
        inColl(n) == { p \in all : Len(p) = n /\ p[1] = collection }
    IN  IF ~Exists(f, get_collection_path(collection)) THEN [err |-> "None", items |-> {}]
        ELSE IF \E p \in inColl(2) : IsFile(f, p) THEN [err |-> "Other", items |-> {}]
        ELSE [err |-> "None", items |-> { p[2] \o p[3] : p \in inColl(3) }]

\* FileStorage::new: the root and its tmp directory exist, nothing else
NewStore == [dirs |-> {<<>>, <<"/">>, <<"tmp">>}, files |-> <<>>]

(******************* store clients (storage/test.rs) ***********************)
NoRead == [res |-> "None", bytes |-> Raw(<<>>), collection |-> "blob", key |-> <<>>]

IdleCall == [pc |-> "idle", collection |-> "blob", key |-> <<>>, data |-> <<>>,
             res |-> "None", existed |-> FALSE]

StoreInit ==
    /\ fs = NewStore
    /\ handle = [w \in Writers |-> NoHandle]
    /\ wr = [w \in Writers |-> IdleCall]
    /\ finished = {}
    /\ calls = 0
    /\ lastRead = NoRead
    /\ src = <<>>
    /\ tgt = <<>>
    /\ run = [r \in Runs |-> [pc |-> "idle"]]
    /\ rst = [pc |-> "idle"]
    /\ clock = 0
    /\ faults = 0
    /\ bf = [called |-> FALSE]

\* storage.write(collection, key) for one of keys: the client means to write data
StorageWriteOf(w, keys) ==
    /\ wr[w].pc \in {"idle", "done"}
    /\ calls < MaxCalls
    /\ calls' = calls + 1
    /\ \E collection \in Collections, key \in keys, data \in StoreData :
         LET r == FileStorageWrite(fs, collection, key, <<w>>)
             item == get_item_path(collection, key)
         IN  /\ fs' = r.fs
             /\ handle' = [handle EXCEPT ![w] = r.handle]
             /\ wr' = [wr EXCEPT ![w] =
                    [pc |-> IF r.res = "Ok" THEN "open" ELSE "done",
                     collection |-> collection, key |-> key, data |-> data,
                     res |-> IF r.res = "Ok" THEN "None" ELSE r.res,
                     existed |-> item.err = "None" /\ IsFile(fs, item.path)]]
    /\ UNCHANGED <<finished, lastRead>>
    /\ UNCHANGED cmdVars

StorageWrite(w) == StorageWriteOf(w, StoreKeys)

Written(w) == fs.files[handle[w].tmp_path].val

\* file.write(..): one more byte of the data reaches the temp file
HandleWrite(w) ==
    /\ wr[w].pc = "open"
    /\ Len(Written(w)) < Len(wr[w].data)
    /\ fs' = poll_write(fs, handle[w], Raw(<<wr[w].data[Len(Written(w)) + 1]>>))
    /\ UNCHANGED <<handle, wr, finished, calls, lastRead>>
    /\ UNCHANGED cmdVars

\* the handle is released: Drop runs
Release(w, res) ==
    LET d == RenameOnDropFile_drop(fs, handle[w])
    IN  /\ fs' = d.fs
        /\ handle' = [handle EXCEPT ![w] = NoHandle]
        /\ wr' = [wr EXCEPT ![w].pc = "done", ![w].res = IF d.panic THEN "Panic" ELSE res]

\* file.finish(): every byte was written; finish consumes the handle
HandleFinish(w) ==
    /\ wr[w].pc = "open"
    /\ Written(w) = wr[w].data
    /\ Release(w, "Ok")
    /\ finished' = finished \cup
            {[path |-> handle[w].new_path, data |-> wr[w].data, how |-> "finished",
              collection |-> wr[w].collection, key |-> wr[w].key]}
    /\ UNCHANGED <<calls, lastRead>>
    /\ UNCHANGED cmdVars

\* the handle is dropped before finish (an error or an abort while writing)
HandleAbort(w) ==
    /\ wr[w].pc = "open"
    /\ Release(w, "Aborted")
    /\ finished' = finished \cup
            {[path |-> handle[w].new_path, data |-> wr[w].data, how |-> "aborted",
              collection |-> wr[w].collection, key |-> wr[w].key]}
    /\ UNCHANGED <<calls, lastRead>>
    /\ UNCHANGED cmdVars

\* storage.read(collection, key) for one of keys
StorageReadOf(keys) ==
    /\ calls < MaxCalls
    /\ calls' = calls + 1
    /\ \E collection \in Collections, key \in keys :
         LET r == FileStorageRead(fs, collection, key)
         IN  lastRead' = [res |-> r.res, bytes |-> r.bytes,
                          collection |-> collection, key |-> key]
    /\ UNCHANGED <<fs, handle, wr, finished>>
    /\ UNCHANGED cmdVars

StorageRead == StorageReadOf(StoreKeys)

StoreNext ==
    \/ \E w \in Writers : StorageWrite(w)
    \/ \E w \in Writers : HandleWrite(w)
    \/ \E w \in Writers : HandleFinish(w)
    \/ \E w \in Writers : HandleAbort(w)
    \/ StorageRead

Spec == StoreInit /\ [][StoreNext]_vars

\* store clients that also use keys outside the contract: a key of two characters,
\* a key of one, and a key whose third character is U+0000
UncheckedKeys == { <<"k", "e", "y">>, <<"a", "b">>, <<"k">>, <<"k", "e", "NUL">> }

KeyWrite(w) == StorageWriteOf(w, UncheckedKeys)
KeyRead == StorageReadOf(UncheckedKeys)

KeysNext ==
    \/ \E w \in Writers : KeyWrite(w)
    \/ \E w \in Writers : HandleWrite(w)
    \/ \E w \in Writers : HandleFinish(w)
    \/ \E w \in Writers : HandleAbort(w)
    \/ KeyRead

SpecKeys == StoreInit /\ [][KeysNext]_vars

(***************************************************************************)
(* The data model (data/backup.proto) and the helpers of cmd/backup.rs     *)
(***************************************************************************)
\* bytes of one chunk (constants::CHUNK_SIZE, scaled)
ChunkSize == 2
\* attempts of the registration loop
MAX_LOOP_ITERATIONS == 100

NoneOpt == [some |-> FALSE]
Some(v) == [some |-> TRUE, val |-> v]

Min(a, b) == IF a < b THEN a ELSE b

HexChars == <<"0", "1", "2", "3", "4", "5", "6", "7", "8", "9", "a", "b", "c", "d", "e", "f">>
HexDigit(n) == HexChars[(n % 16) + 1]

RECURSIVE SumSeq(_)
SumSeq(b) == IF b = <<>> THEN 0 ELSE Head(b) + SumSeq(Tail(b))

\* format!("{:x}", Sha256::digest(..)): two leading hex digits and the digest's tail
Sha256Hex(content) ==
    IF content.msg = "raw"
    THEN <<HexDigit(SumSeq(content.val)), HexDigit(Len(content.val)), <<"sha256", content>>>>
    ELSE <<"d", "e", <<"sha256", content>>>>

\* prost: Message::encode_to_vec and Message::decode
Encode(msg, v) == [msg |-> msg, val |-> v]
Decode(msg, content) ==
    IF content.msg = msg THEN [err |-> "None", val |-> content.val]
    ELSE [err |-> "Decode", val |-> content.val]

\* a chunk loop that stops at the first short window
RECURSIVE Chunks_full_windows(_)
Chunks_full_windows(b) ==
    IF Len(b) < ChunkSize THEN <<>>
    ELSE <<SubSeq(b, 1, ChunkSize)>> \o Chunks_full_windows(SubSeq(b, ChunkSize + 1, Len(b)))

\* a read call returns at most ReadLen bytes (a short read)
ReadLen == 1

\* a copy that ends with the first read
io_copy_one_read(b, limit, read_len) == SubSeq(b, 1, Min(Min(read_len, limit), Len(b)))

\* io::copy(&mut file.take(limit), &mut buffer): read after read, until limit bytes
\* were read or the file is at its end; read[n] is the number of bytes copied in
\* the end, n of them being copied already
io_copy(b, limit, read_len) ==
    LET read[n \in 0..limit] ==
            IF n = limit \/ n >= Len(b) THEN n
            ELSE read[n + Min(Min(read_len, limit - n), Len(b) - n)]
    IN  SubSeq(b, 1, read[0])

\* the chunk loop of backup_file on a file whose reads return read_len bytes: a
\* chunk is what io::copy takes from the position of the file, and the loop ends
\* with the first empty chunk
ChunksBy(b, read_len) ==
    LET loop[pos \in 0..Len(b)] ==
            IF io_copy(SubSeq(b, pos + 1, Len(b)), ChunkSize, read_len) = <<>> THEN <<>>
            ELSE <<io_copy(SubSeq(b, pos + 1, Len(b)), ChunkSize, read_len)>>
                 \o loop[pos + Len(io_copy(SubSeq(b, pos + 1, Len(b)), ChunkSize, read_len))]
    IN  loop[0]

\* the chunks the chunk loop reads
Chunks(b) == ChunksBy(b, ReadLen)

\* str::split('/'): empty parts are kept
RECURSIVE Split(_)
Split(s) ==
    IF NameLen(s) = Len(s) THEN <<s>>
    ELSE <<SubSeq(s, 1, NameLen(s))>> \o Split(SubSeq(s, NameLen(s) + 2, Len(s)))

DigitChars == <<"0", "1", "2", "3", "4", "5", "6", "7", "8", "9">>
IsDigit(c) == \E i \in 1..10 : c = DigitChars[i]
DigitVal(c) == (CHOOSE i \in 1..10 : c = DigitChars[i]) - 1

RECURSIVE ParseDigits(_, _)
ParseDigits(s, acc) ==
    IF s = <<>> THEN acc ELSE ParseDigits(Tail(s), acc * 10 + DigitVal(Head(s)))

\* the snapshot number is a u32; the model counts in NumberBits bits instead of 32
NumberBits == 8

\* u32::MAX
U32Max == 2^NumberBits - 1

\* str::parse::<u32>: an optional '+', then one digit or more; a number above
\* u32::MAX is an error
ParseU32(s) ==
    LET d == IF s # <<>> /\ Head(s) = "+" THEN Tail(s) ELSE s
    IN  IF d = <<>> \/ \E i \in 1..Len(d) : ~IsDigit(d[i]) THEN [ok |-> FALSE, val |-> 0]
        ELSE IF ParseDigits(d, 0) > U32Max THEN [ok |-> FALSE, val |-> 0]
        ELSE [ok |-> TRUE, val |-> ParseDigits(d, 0)]

\* highest_snapshot + 1 on u32: at u32::MAX the addition panics in a build with
\* overflow checks (debug) and wraps to 0 in one without (release)
AddOne(n, overflow_checks) ==
    IF n < U32Max THEN [panic |-> FALSE, val |-> n + 1]
    ELSE [panic |-> overflow_checks, val |-> 0]

\* format!("{}", n) of an unsigned number
RECURSIVE FormatU32(_)
FormatU32(n) ==
    IF n < 10 THEN <<DigitChars[n + 1]>> ELSE FormatU32(n \div 10) \o <<DigitChars[(n % 10) + 1]>>

\* format!("{}/{}", archive_name, n)
SnapshotName(archive_name, n) == archive_name \o <<"/">> \o n

RECURSIVE SetMax(_)
SetMax(S) ==
    IF S = {} THEN 0
    ELSE LET x == CHOOSE y \in S : TRUE
             m == SetMax(S \ {x})
         IN  IF x > m THEN x ELSE m

\* get_highest_snapshot_number over the listed items
get_highest_snapshot_number(items, archive_name) ==
    SetMax({ ParseU32(Split(k)[2]).val :
                k \in { i \in items : /\ Len(Split(i)) = 2
                                      /\ Split(i)[1] = archive_name
                                      /\ ParseU32(Split(i)[2]).ok } })

\* IgnoreAlreadyExists::ignore_already_exists
ignore_already_exists(res) == IF res = "AlreadyExists" THEN "Ok" ELSE res

\* storage.write(collection, key, bytes) as the commands call it: the handle is
\* obtained, the bytes are written and the handle is released
StorageWriteAll(f, collection, key, content, random_name) ==
    LET Released(d) == [res |-> IF d.panic THEN "Panic" ELSE "Ok", fs |-> d.fs]
        Opened(w) ==
            IF w.res # "Ok" THEN [res |-> w.res, fs |-> w.fs]
            ELSE Apply(Released,
                       RenameOnDropFile_drop(poll_write(w.fs, w.handle, content), w.handle))
    IN  Apply(Opened, FileStorageWrite(f, collection, key, random_name))

\* storage.read(collection, key, &mut buffer) as the commands call it: on success
\* the buffer holds the content of the key
StorageReadAll(f, collection, key) == FileStorageRead(f, collection, key)

\* get_dir_entry
get_dir_entry(f, hash) ==
    LET Decoded(d) == [err |-> IF d.err # "None" THEN "Corrupt" ELSE "None", val |-> d.val]
        Got(r) == IF r.res # "Ok" THEN [err |-> "System", val |-> r.bytes.val]
                  ELSE Decoded(Decode("DirEntry", r.bytes))
    IN  Got(StorageReadAll(f, "blob", hash))

\* the entry called name in a sequence of entries (HashMap::get)
Find(entries, name) ==
    IF \E i \in 1..Len(entries) : entries[i].name = name
    THEN Some(entries[CHOOSE i \in 1..Len(entries) : entries[i].name = name])
    ELSE NoneOpt

\* the names of the source tree in the order of String::cmp
NameOrder == <<"a.txt", "b.txt", "c.txt", "lnk", "sub", "tmp">>
NameIdx(n) == CHOOSE i \in 1..Len(NameOrder) : NameOrder[i] = n

\* sort_by(|a, b| a.name.cmp(&b.name)) of a set of entries
RECURSIVE SortByName(_)
SortByName(S) ==
    IF S = {} THEN <<>>
    ELSE LET m == CHOOSE x \in S : \A y \in S : NameIdx(x.name) <= NameIdx(y.name)
         IN  <<m>> \o SortByName(S \ {m})

RECURSIVE SumSizes(_)
SumSizes(entries) == IF entries = <<>> THEN 0 ELSE Head(entries).size + SumSizes(Tail(entries))

\* a chunk loop that hashes the windows and writes none of them
UploadChunks_unstored(f, chunks, random_name, failAt) ==
    [err |-> "None", fs |-> f,
     chunk_hashes |-> [i \in 1..Len(chunks) |-> Sha256Hex(Raw(chunks[i]))], writes |-> 0]

\* the chunk loop of backup_file: hash each window and write it to Blob; failAt is
\* the window whose write fails with an I/O error (0: none)
RECURSIVE UploadChunks(_, _, _, _)
UploadChunks(f, chunks, random_name, failAt) ==
    LET Pushed(hash, rest) ==
            [rest EXCEPT !.chunk_hashes = <<hash>> \o @, !.writes = 1 + @]
        Stored(hash, w) ==
            IF ignore_already_exists(w.res) # "Ok"
            THEN [err |-> "System", fs |-> w.fs, chunk_hashes |-> <<>>, writes |-> 1]
            ELSE Apply(LAMBDA rest : Pushed(hash, rest),
                       UploadChunks(w.fs, Tail(chunks), random_name,
                                    IF failAt = 0 THEN 0 ELSE failAt - 1))
        Hashed(hash) ==
            Apply(LAMBDA w : Stored(hash, w),
                  StorageWriteAll(f, "blob", hash, Raw(Head(chunks)), random_name))
    IN  IF chunks = <<>> THEN [err |-> "None", fs |-> f, chunk_hashes |-> <<>>, writes |-> 0]
        ELSE IF failAt = 1
             THEN [err |-> "System", fs |-> f, chunk_hashes |-> <<>>, writes |-> 1]
        ELSE Apply(Hashed, Sha256Hex(Raw(Head(chunks))))

\* a backup_file that never compares the whole-file hash
backup_file_rechunk(f, name, node, previous_snapshot, random_name, failAt) ==
    LET Uploaded(up) ==
            [err |-> up.err,
             entry |-> [name |-> name, content_hash |-> Sha256Hex(Raw(node.bytes)),
                        chunk_hash |-> up.chunk_hashes,
                        size |-> Len(node.bytes), modified |-> node.modified],
             fs |-> up.fs, opened |-> TRUE, writes |-> up.writes]
    IN  IF /\ previous_snapshot.some
           /\ previous_snapshot.val.modified = node.modified
           /\ previous_snapshot.val.size = Len(node.bytes)
        THEN [err |-> "None", entry |-> previous_snapshot.val, fs |-> f,
              opened |-> FALSE, writes |-> 0]
        ELSE Apply(Uploaded, UploadChunks(f, Chunks(node.bytes), random_name, failAt))

\* a backup_file that reuses the previous entry when the size alone matches
backup_file_size_only(f, name, node, previous_snapshot, random_name, failAt) ==
    LET Uploaded(up) ==
            [err |-> up.err,
             entry |-> [name |-> name, content_hash |-> Sha256Hex(Raw(node.bytes)),
                        chunk_hash |-> up.chunk_hashes,
                        size |-> Len(node.bytes), modified |-> node.modified],
             fs |-> up.fs, opened |-> TRUE, writes |-> up.writes]
    IN  IF previous_snapshot.some /\ previous_snapshot.val.size = Len(node.bytes)
        THEN [err |-> "None", entry |-> previous_snapshot.val, fs |-> f,
              opened |-> FALSE, writes |-> 0]
        ELSE Apply(Uploaded, UploadChunks(f, Chunks(node.bytes), random_name, failAt))

\* backup_file for the file node (bytes, modified) called name, with the previous
\* FileEntry if there is one: the FileEntry, the store afterwards, whether the file
\* was opened and how many chunk writes were issued
backup_file(f, name, node, previous_snapshot, random_name, failAt) ==
    LET modified == node.modified
        size == Len(node.bytes)
        Uploaded(content_hash, up) ==
            [err |-> up.err,
             entry |-> [name |-> name, content_hash |-> content_hash,
                        chunk_hash |-> up.chunk_hashes,
                        size |-> size, modified |-> modified],
             fs |-> up.fs, opened |-> TRUE, writes |-> up.writes]
        Hashed(content_hash) ==
            IF previous_snapshot.some /\ previous_snapshot.val.content_hash = content_hash
            THEN [err |-> "None",
                  entry |-> [name |-> name, content_hash |-> content_hash,
                             chunk_hash |-> previous_snapshot.val.chunk_hash,
                             size |-> size, modified |-> modified],
                  fs |-> f, opened |-> TRUE, writes |-> 0]
            ELSE Apply(LAMBDA up : Uploaded(content_hash, up),
                       UploadChunks(f, Chunks(node.bytes), random_name, failAt))
    IN  IF /\ previous_snapshot.some
           /\ previous_snapshot.val.modified = modified
           /\ previous_snapshot.val.size = size
        THEN [err |-> "None", entry |-> previous_snapshot.val, fs |-> f,
              opened |-> FALSE, writes |-> 0]
        ELSE Apply(Hashed, Sha256Hex(Raw(node.bytes)))

(***************************************************************************)
(* The backup command (cmd/backup.rs) on a source tree.  A tree maps a     *)
(* relative path (a sequence of names, the names being strings) to a node. *)
(* A chunk or root write of a run is one step; the registration write is   *)
(* two: FileStorage::write, then the bytes and the release of the handle.  *)
(***************************************************************************)
FileNode(b, m) == [kind |-> "file", bytes |-> b, modified |-> m]
DirNode == [kind |-> "dir", bytes |-> <<>>, modified |-> 0]
OtherNode == [kind |-> "other", bytes |-> <<>>, modified |-> 0]

Last(p) == p[Len(p)]
Children(tree, d) == { p \in DOMAIN tree : Len(p) = Len(d) + 1 /\ SubSeq(p, 1, Len(d)) = d }

\* contents of a.txt and of sub/b.txt
ABytes == { <<1>>, <<1, 2, 1>> }
BBytes == { <<>>, <<1>> }

\* root/{a.txt, sub/{b.txt}}, with or without an entry sub/lnk that is neither a
\* regular file nor a directory
SourceTrees ==
    { [p \in {<<>>, <<"a.txt">>, <<"sub">>, <<"sub", "b.txt">>} \cup extra |->
          CASE p = <<>> -> DirNode
            [] p = <<"a.txt">> -> FileNode(a, 1)
            [] p = <<"sub">> -> DirNode
            [] p = <<"sub", "b.txt">> -> FileNode(b, 2)
            [] OTHER -> OtherNode] :
        a \in ABytes, b \in BBytes, extra \in {{}, {<<"sub", "lnk">>}} }

NoTree == [p \in {} |-> DirNode]

\* the paths of the keys of the Snapshot collection
SnapshotKeys(f) == { p \in DOMAIN f.files : p[1] = "snapshot" }

Inline(dir_entry) == [kind |-> "Inline", val |-> dir_entry]

RECURSIVE SumDirSizes(_)
SumDirSizes(sub_dirs) ==
    IF sub_dirs = <<>> THEN 0 ELSE Head(sub_dirs).content.val.size + SumDirSizes(Tail(sub_dirs))

\* the DirEntry backup_dir returns for d once the tasks of its entries have ended
DirEntryOf(tree, entries, d) ==
    LET kids == Children(tree, d)
        sub_dir == SortByName({ [name |-> Last(p), content |-> Inline(entries[p])] :
                                  p \in { q \in kids : tree[q].kind = "dir" } })
        file == SortByName({ entries[p] : p \in { q \in kids : tree[q].kind = "file" } })
    IN  [sub_dir |-> sub_dir, file |-> file, size |-> SumDirSizes(sub_dir) + SumSizes(file)]

\* the previous DirEntry of the sub directory called name
PreviousSubDir(f, previous, name) ==
    LET Fetched(d) == IF d.err # "None" THEN [err |-> d.err, val |-> NoneOpt]
                      ELSE [err |-> "None", val |-> Some(d.val)]
        Found(e) ==
            IF ~e.some \/ e.val.content.kind = "None" THEN [err |-> "None", val |-> NoneOpt]
            ELSE IF e.val.content.kind = "Inline"
                 THEN [err |-> "None", val |-> Some(e.val.content.val)]
            ELSE Fetched(get_dir_entry(f, e.val.content.val))
    IN  Found(IF previous.some THEN Find(previous.val.sub_dir, name) ELSE NoneOpt)

\* backup from previous_snapshot_number on: the Snapshot of that number is read and
\* decoded, then its root DirEntry; every failure is a System error
previous_snapshot_root(f, archive_name, previous_snapshot_number) ==
    LET System == [err |-> "System", root |-> NoneOpt]
        RootDecoded(bd) == IF bd.err # "None" THEN System
                           ELSE [err |-> "None", root |-> Some(bd.val)]
        RootRead(b) == IF b.res # "Ok" THEN System ELSE RootDecoded(Decode("DirEntry", b.bytes))
        SnapshotDecoded(sd) == IF sd.err # "None" THEN System
                               ELSE RootRead(StorageReadAll(f, "blob", sd.val.root_hash))
        SnapshotRead(s) == IF s.res # "Ok" THEN System
                           ELSE SnapshotDecoded(Decode("Snapshot", s.bytes))
    IN  IF previous_snapshot_number = 0 THEN [err |-> "None", root |-> NoneOpt]
        ELSE SnapshotRead(StorageReadAll(f, "snapshot",
                                         SnapshotName(archive_name,
                                                      FormatU32(previous_snapshot_number))))

\* the head of backup: the root DirEntry of the highest snapshot of the archive
ResolvePreviousSnapshot(f, archive_name) ==
    LET Listed(listing) ==
            IF listing.err # "None" THEN [err |-> "System", root |-> NoneOpt]
            ELSE previous_snapshot_root(f, archive_name,
                                        get_highest_snapshot_number(listing.items,
                                                                    archive_name))
    IN  Listed(FileStorageList(f, "snapshot"))

\* the permits of the semaphore of file opens.  backup.rs has 16; the model scales
\* the number down so that the tree of the tasks has more files than permits
BACKUP_FILE_OPENS == 2

\* an acquire that is granted whatever the number of permits
acquire_always(permits) == TRUE

\* BACKUP_FILE_OPENS.acquire(): granted when a permit is left, else the task waits
acquire(permits) == permits > 0

\* a drop that gives no permit back
add_permits_leak(permits, n) == permits

\* the drop of n permits (_permit goes out of scope, or its future is dropped)
add_permits(permits, n) == permits + n

NoSnapshot == [root_hash |-> <<>>, started |-> 0, finished |-> 0]

\* a backup run: the locals of backup and of its backup_dir tasks, and its history
\* (stage, keys_before .. failed_at)
IdleRun ==
    [pc |-> "idle", err |-> "None", stage |-> "none", started |-> 0,
     previous |-> NoTree, listed |-> {}, entries |-> NoTree,
     snapshot |-> NoSnapshot, attempt |-> 0, snapshot_name |-> <<>>, handle |-> NoHandle,
     keys_before |-> {}, keys_after |-> {}, wrote |-> {}, after |-> {},
     opened |-> {}, chunk_writes |-> 0, absorbed |-> FALSE, overlapped |-> FALSE,
     faulted |-> FALSE, failed_at |-> "none",
     task |-> NoTree, order |-> NoTree, permits |-> BACKUP_FILE_OPENS]

Active(r) == run[r].pc \notin {"idle", "done", "failed"}

\* a run that goes on after an error
Failed_continue(rec, kind, f) ==
    [rec EXCEPT !.err = kind, !.failed_at = rec.stage, !.keys_after = SnapshotKeys(f)]

\* an error return of backup (the ? operators): the run ends with the error
Failed(rec, kind, f) ==
    [rec EXCEPT !.pc = "failed", !.err = kind, !.failed_at = rec.stage,
                !.keys_after = SnapshotKeys(f)]

\* an injected I/O error of the step of run r
Inject(r, io_error) ==
    /\ io_error => faults < MaxFaults
    /\ faults' = IF io_error THEN faults + 1 ELSE faults

Faulted(rec, io_error) == [rec EXCEPT !.faulted = @ \/ io_error]

\* backup is called; started is taken and the previous snapshot is resolved
BackupStart(r) ==
    /\ run[r].pc = "idle"
    /\ rst.pc = "idle"
    /\ \E io_error \in BOOLEAN :
         LET others == [q \in Runs |->
                          IF Active(q) THEN [run[q] EXCEPT !.overlapped = TRUE] ELSE run[q]]
             Resolved(rec, prev) ==
                 IF io_error THEN Failed(rec, "System", fs)
                 ELSE IF prev.err # "None" THEN Failed(rec, prev.err, fs)
                 ELSE [rec EXCEPT !.pc = "build", !.stage = "build",
                                  !.previous = Put(NoTree, <<>>, prev.root)]
         IN  /\ Inject(r, io_error)
             /\ run' = [others EXCEPT ![r] =
                    Resolved([Faulted(run[r], io_error) EXCEPT
                                 !.started = clock, !.stage = "resolve",
                                 !.keys_before = SnapshotKeys(fs),
                                 !.after = { q \in Runs : run[q].pc = "done" },
                                 !.overlapped = \E q \in Runs : Active(q)],
                             ResolvePreviousSnapshot(fs, ArchiveName))]
    /\ clock' = clock + 1
    /\ UNCHANGED <<fs, src, tgt, rst, bf>>
    /\ UNCHANGED clientVars

\* backup_dir(d) up to its try_join: the previous entries, read_dir and the loop
\* that makes one task for each entry
BackupDirList(r, d) ==
    /\ run[r].pc = "build"
    /\ d \in DOMAIN src /\ src[d].kind = "dir"
    /\ d \notin run[r].listed
    /\ d = <<>> \/ Parent(d) \in run[r].listed
    /\ \E io_error \in BOOLEAN :
         LET Listed(rec, prev) ==
                 IF prev.err # "None" THEN Failed(rec, prev.err, fs)
                 ELSE IF io_error THEN Failed(rec, "System", fs)
                 ELSE IF \E p \in Children(src, d) : src[p].kind = "other"
                      THEN Failed(rec, "Program", fs)
                 ELSE [rec EXCEPT !.listed = @ \cup {d}, !.previous = Put(@, d, prev.val)]
         IN  /\ Inject(r, io_error)
             /\ run' = [run EXCEPT ![r] =
                    Listed(Faulted(run[r], io_error),
                           IF d = <<>> THEN [err |-> "None", val |-> run[r].previous[<<>>]]
                           ELSE PreviousSubDir(fs, run[r].previous[Parent(d)], Last(d)))]
    /\ UNCHANGED <<fs, src, tgt, rst, clock, bf>>
    /\ UNCHANGED clientVars

\* the task of a regular file: backup_file
BackupFile(r, p) ==
    /\ run[r].pc = "build"
    /\ p \in DOMAIN src /\ src[p].kind = "file"
    /\ Parent(p) \in run[r].listed
    /\ p \notin DOMAIN run[r].entries
    /\ \E failAt \in 0..Len(Chunks(src[p].bytes)) :
         LET previous == run[r].previous[Parent(p)]
             Counted(rec, res) ==
                 IF res.err # "None" THEN Failed(rec, res.err, res.fs)
                 ELSE [rec EXCEPT !.entries = Put(@, p, res.entry)]
             Ended(res) ==
                 /\ failAt > 0 => res.err # "None"
                 /\ Inject(r, failAt > 0)
                 /\ fs' = res.fs
                 /\ run' = [run EXCEPT ![r] =
                        Counted([Faulted(run[r], failAt > 0) EXCEPT
                                    !.opened = IF res.opened THEN @ \cup {p} ELSE @,
                                    !.chunk_writes = @ + res.writes],
                                res)]
         IN  Ended(backup_file(fs, Last(p), src[p],
                               IF previous.some THEN Find(previous.val.file, Last(p))
                               ELSE NoneOpt,
                               <<r>>, failAt))
    /\ UNCHANGED <<src, tgt, rst, clock, bf>>
    /\ UNCHANGED clientVars

\* backup_dir(d) after its try_join: the sums and the sorted entries; the root's
\* DirEntry is what backup goes on with
BackupDirJoin(r, d) ==
    /\ run[r].pc = "build"
    /\ d \in run[r].listed
    /\ d \notin DOMAIN run[r].entries
    /\ \A p \in Children(src, d) : p \in DOMAIN run[r].entries
    /\ run' = [run EXCEPT ![r].entries = Put(@, d, DirEntryOf(src, run[r].entries, d)),
                          ![r].pc = IF d = <<>> THEN "persist" ELSE "build",
                          ![r].stage = IF d = <<>> THEN "persist" ELSE "build"]
    /\ UNCHANGED <<fs, src, tgt, rst, clock, faults, bf>>
    /\ UNCHANGED clientVars

\* the root DirEntry is encoded, hashed and written to Blob; finished is taken
PersistRoot(r) ==
    /\ run[r].pc = "persist"
    /\ \E io_error \in BOOLEAN :
         LET Uploaded(rec, root_hash, w) ==
                 /\ fs' = IF io_error THEN fs ELSE w.fs
                 /\ run' = [run EXCEPT ![r] =
                        IF io_error \/ ignore_already_exists(w.res) # "Ok"
                        THEN Failed(rec, "System", fs')
                        ELSE [rec EXCEPT !.pc = "register", !.stage = "register",
                                         !.absorbed = (w.res = "AlreadyExists"),
                                         !.snapshot = [root_hash |-> root_hash,
                                                       started |-> run[r].started,
                                                       finished |-> clock]]]
             Hashed(backup_root_entry, root_hash) ==
                 \E w \in {StorageWriteAll(fs, "blob", root_hash, backup_root_entry, <<r>>)} :
                     Uploaded(Faulted(run[r], io_error), root_hash, w)
             Encoded(backup_root_entry) ==
                 \E root_hash \in {Sha256Hex(backup_root_entry)} :
                     Hashed(backup_root_entry, root_hash)
         IN  /\ Inject(r, io_error)
             /\ \E backup_root_entry \in {Encode("DirEntry", run[r].entries[<<>>])} :
                    Encoded(backup_root_entry)
    /\ clock' = clock + 1
    /\ UNCHANGED <<src, tgt, rst, bf>>
    /\ UNCHANGED clientVars

\* the head of the registration loop: the highest number is listed again
RegisterList(r) ==
    /\ run[r].pc = "register"
    /\ \E io_error \in BOOLEAN :
         LET Named(rec, next) ==
                 IF next.panic THEN Failed(rec, "Panic", fs)
                 ELSE [rec EXCEPT !.pc = "write",
                          !.snapshot_name = SnapshotName(ArchiveName, FormatU32(next.val))]
             Listed(rec, listing, overflow_checks) ==
                 IF io_error \/ listing.err # "None" THEN Failed(rec, "System", fs)
                 ELSE Named(rec, AddOne(get_highest_snapshot_number(listing.items,
                                                                    ArchiveName),
                                        overflow_checks))
         IN  /\ Inject(r, io_error)
             /\ \E listing \in {FileStorageList(fs, "snapshot")},
                   overflow_checks \in BOOLEAN :
                    run' = [run EXCEPT ![r] =
                               Listed(Faulted(run[r], io_error), listing, overflow_checks)]
    /\ UNCHANGED <<fs, src, tgt, rst, clock, bf>>
    /\ UNCHANGED clientVars

\* a loop that gives up after its first iteration
LoopEnds_first(iterations) == TRUE

\* for _ in 0..MAX_LOOP_ITERATIONS: the loop ends once that many iterations were made
LoopEnds(iterations) == iterations = MAX_LOOP_ITERATIONS

\* storage.write(Snapshot, snapshot_name, ..) is called: the key is checked and the
\* temp file is made; AlreadyExists ends the iteration
RegisterWrite(r) ==
    /\ run[r].pc = "write"
    /\ \E io_error \in BOOLEAN :
         LET Opened(rec, w) ==
                 /\ fs' = IF io_error THEN fs ELSE w.fs
                 /\ run' = [run EXCEPT ![r] =
                        IF io_error THEN Failed(rec, "System", fs')
                        ELSE IF w.res = "Ok"
                             THEN [rec EXCEPT !.pc = "finish", !.handle = w.handle]
                        ELSE IF w.res # "AlreadyExists" THEN Failed(rec, "System", fs')
                        ELSE IF LoopEnds(run[r].attempt + 1)
                             THEN Failed([rec EXCEPT !.attempt = @ + 1], "Program", fs')
                        ELSE [rec EXCEPT !.pc = "register", !.attempt = @ + 1]]
         IN  /\ Inject(r, io_error)
             /\ \E w \in {FileStorageWrite(fs, "snapshot", run[r].snapshot_name, <<r>>)} :
                    Opened(Faulted(run[r], io_error), w)
    /\ UNCHANGED <<src, tgt, rst, clock, bf>>
    /\ UNCHANGED clientVars

\* the encoded Snapshot is written to the handle and the handle is released: the
\* write returns Ok and so does backup
RegisterFinish(r) ==
    /\ run[r].pc = "finish"
    /\ LET h == run[r].handle
           Released(d) ==
               /\ fs' = d.fs
               /\ run' = [run EXCEPT ![r] =
                      IF d.panic THEN Failed([run[r] EXCEPT !.handle = NoHandle], "Panic", fs')
                      ELSE [run[r] EXCEPT !.pc = "done", !.handle = NoHandle,
                                          !.wrote = @ \cup {h.new_path},
                                          !.keys_after = SnapshotKeys(fs')]]
       IN  \E d \in {RenameOnDropFile_drop(
                          poll_write(fs, h, Encode("Snapshot", run[r].snapshot)), h)} :
               Released(d)
    /\ UNCHANGED <<src, tgt, rst, clock, faults, bf>>
    /\ UNCHANGED clientVars

(***************************************************************************)
(* The restore command (cmd/restore.rs) into a target tree.  The operator  *)
(* runs it while no backup run is in progress, and starts no backup after  *)
(* it.  The snapshot restored has sub directories one level deep.          *)
(***************************************************************************)
\* what the target holds before the restore: nothing, an empty directory, or a
\* directory with a file a.txt that is none of the source's
TargetTrees ==
    { NoTree,
      [p \in {<<>>} |-> DirNode],
      [p \in {<<>>, <<"a.txt">>} |-> IF p = <<>> THEN DirNode ELSE FileNode(<<2>>, 5)] }

\* args.snapshot: the first snapshot of the archive, or one that was never made
SnapshotArgs == { <<"1">>, <<"2">> }
\* args.snapshot of a restore that follows a backup
FirstSnapshot == { <<"1">> }

\* KeepGoingOrErr::keep_going_or_err on an error
keep_going_or_err(keep_going) == IF keep_going THEN "None" ELSE "Program"

\* a chunk loop whose reads append to the buffer, which is never cleared
RECURSIVE RestoreChunks_appending(_, _, _, _, _)
RestoreChunks_appending(f, chunk_hashes, buffer, keep_going, failAt) ==
    LET Appended(read, rest) == [rest EXCEPT !.bytes = read \o @, !.writes = 1 + @]
        Read(r) == IF r.res # "Ok" THEN [err |-> "Program", bytes |-> <<>>, writes |-> 0]
                   ELSE Appended(buffer \o r.bytes.val,
                                 RestoreChunks_appending(f, Tail(chunk_hashes),
                                                         buffer \o r.bytes.val,
                                                         keep_going, 0))
    IN  IF chunk_hashes = <<>> THEN [err |-> "None", bytes |-> <<>>, writes |-> 0]
        ELSE Read(StorageReadAll(f, "blob", Head(chunk_hashes)))

\* the chunk loop of restore_file: each chunk is read into the buffer and the buffer
\* is appended to the target file (writes: the number of write_all calls); failAt is
\* the chunk whose read fails with an I/O error (0: none)
RECURSIVE RestoreChunks(_, _, _, _, _)
RestoreChunks(f, chunk_hashes, buffer, keep_going, failAt) ==
    LET Appended(read, rest) == [rest EXCEPT !.bytes = read \o @, !.writes = 1 + @]
        Buffered(ok, read) ==
            IF ~ok /\ keep_going_or_err(keep_going) # "None"
            THEN [err |-> "Program", bytes |-> <<>>, writes |-> 0]
            ELSE Appended(read, RestoreChunks(f, Tail(chunk_hashes), read, keep_going,
                                              IF failAt = 0 THEN 0 ELSE failAt - 1))
        Read(r) == IF failAt # 1 /\ r.res = "Ok" THEN Buffered(TRUE, r.bytes.val)
                   ELSE Buffered(FALSE, buffer)
    IN  IF chunk_hashes = <<>> THEN [err |-> "None", bytes |-> <<>>, writes |-> 0]
        ELSE Read(StorageReadAll(f, "blob", Head(chunk_hashes)))

\* the calls restore_file makes on the target file once it is open
FileOps(chunks) ==
    [i \in 1..chunks.writes |-> "write_all"]
    \o (IF chunks.err = "None" THEN <<"set_modified", "sync_all">> ELSE <<>>)

\* a restore_file that writes the file whether or not the one there matches
restore_file_rewrite(f, t, file_entry, target_path, keep_going, no_override_files, failAt) ==
    LET Copied(chunks) ==
            [err |-> chunks.err, opened |-> TRUE, ops |-> FileOps(chunks),
             tgt |-> Put(t, target_path,
                         FileNode(chunks.bytes,
                                  IF chunks.err # "None" THEN 0 ELSE file_entry.modified))]
    IN  Copied(RestoreChunks(f, file_entry.chunk_hash, <<>>, keep_going, failAt))

\* restore_file: the error, the target afterwards and whether the file was opened
\* for writing
restore_file(f, t, file_entry, target_path, keep_going, no_override_files, failAt) ==
    LET exists == target_path \in DOMAIN t
        existing_size == Len(t[target_path].bytes)
        existing_modified == t[target_path].modified
        existing_matches ==
            IF ~exists THEN "DoesNotExist"
            ELSE IF existing_size # file_entry.size /\ existing_modified # file_entry.modified
                 THEN "DoesNotMatch"
            ELSE "Matches"
        \* create(true).truncate(true) when no_override_files is set, else
        \* create_new(true)
        opens == IF no_override_files THEN ~exists \/ t[target_path].kind = "file"
                 ELSE ~exists
        \* a file left half written has the time of the write, not of the entry
        Copied(chunks) ==
            IF chunks.err # "None"
            THEN [err |-> chunks.err, opened |-> TRUE, ops |-> FileOps(chunks),
                  tgt |-> Put(t, target_path, FileNode(chunks.bytes, 0))]
            ELSE [err |-> "None", opened |-> TRUE, ops |-> FileOps(chunks),
                  tgt |-> Put(t, target_path, FileNode(chunks.bytes, file_entry.modified))]
        Decided(matches) ==
            IF matches = "Matches"
            THEN [err |-> "None", tgt |-> t, opened |-> FALSE, ops |-> <<>>]
            ELSE IF matches = "DoesNotMatch" /\ no_override_files
                 THEN [err |-> "FileSystemConflict", tgt |-> t, opened |-> FALSE, ops |-> <<>>]
            ELSE IF ~opens THEN [err |-> "System", tgt |-> t, opened |-> FALSE, ops |-> <<>>]
            ELSE Copied(RestoreChunks(f, file_entry.chunk_hash, <<>>, keep_going, failAt))
    IN  Decided(existing_matches)

\* a head of restore for which a missing snapshot is a failed download
RestoreResolve_system(f, archive_name, snapshot, io_error) ==
    LET Root(root) == IF root.err # "None" THEN [err |-> root.err, root |-> NoneOpt]
                      ELSE [err |-> "None", root |-> Some(root.val)]
        Decoded(sd) == IF sd.err # "None" THEN [err |-> "Corrupt", root |-> NoneOpt]
                       ELSE Root(get_dir_entry(f, sd.val.root_hash))
        Read(s) == IF io_error \/ s.res # "Ok" THEN [err |-> "System", root |-> NoneOpt]
                   ELSE Decoded(Decode("Snapshot", s.bytes))
    IN  Read(StorageReadAll(f, "snapshot", SnapshotName(archive_name, snapshot)))

\* the head of restore: the Snapshot and its root DirEntry; io_error: the read of
\* the snapshot fails with an I/O error
RestoreResolve(f, archive_name, snapshot, io_error) ==
    LET Root(root) == IF root.err # "None" THEN [err |-> root.err, root |-> NoneOpt]
                      ELSE [err |-> "None", root |-> Some(root.val)]
        Decoded(sd) == IF sd.err # "None" THEN [err |-> "Corrupt", root |-> NoneOpt]
                       ELSE Root(get_dir_entry(f, sd.val.root_hash))
        Read(s) == IF io_error THEN [err |-> "System", root |-> NoneOpt]
                   ELSE IF s.res = "NotFound" THEN [err |-> "User", root |-> NoneOpt]
                   ELSE IF s.res # "Ok" THEN [err |-> "System", root |-> NoneOpt]
                   ELSE Decoded(Decode("Snapshot", s.bytes))
    IN  Read(StorageReadAll(f, "snapshot", SnapshotName(archive_name, snapshot)))

\* the restore run: its arguments, the tasks not yet run and its history: the
\* target when it started (before), the files it opened for writing, the child
\* operations that failed (failures: path and error, skipped: the paths passed
\* over), where it failed (stage), whether an I/O error was injected into it, and
\* what the restore before it was (first)
NoRestore == [pc |-> "idle", snapshot |-> <<>>, clean |-> FALSE]

\* main (main.rs) once run(args) has returned result: the error is logged, and main
\* returns, so the process ends with the exit status of a normal return
main(result) == [printed |-> result # "None", exit_status |-> 0]

IdleRestore ==
    [pc |-> "idle", err |-> "None", snapshot |-> <<>>, keep_going |-> FALSE,
     no_override_files |-> FALSE, tasks |-> {}, empty_target |-> FALSE, skipped |-> {},
     before |-> NoTree, opened |-> {}, failures |-> {}, stage |-> "none",
     faulted |-> FALSE, again |-> FALSE, first |-> NoRestore, exit |-> NoneOpt,
     called |-> {}]

DirTask(path, content) == [kind |-> "dir", path |-> path, entry |-> content]
FileTask(path, file_entry) == [kind |-> "file", path |-> path, entry |-> file_entry]

\* the tasks restore_dir makes for the entries of dir_entry
TasksOf(dir_entry, target) ==
    { DirTask(target \o <<dir_entry.sub_dir[i].name>>, dir_entry.sub_dir[i].content) :
        i \in 1..Len(dir_entry.sub_dir) }
    \cup { FileTask(target \o <<dir_entry.file[i].name>>, dir_entry.file[i]) :
             i \in 1..Len(dir_entry.file) }

\* the restore goes on with the tasks left, or ends when none is left
RestoreGoesOn(rec, tasks) ==
    [rec EXCEPT !.tasks = tasks, !.pc = IF tasks = {} THEN "done" ELSE "run",
                !.exit = IF tasks = {} THEN Some(main("None")) ELSE NoneOpt]

\* restore returns the error: try_join_all drops the tasks still pending
RestoreFailed(rec, kind, stage) ==
    [rec EXCEPT !.pc = "failed", !.err = kind, !.tasks = {}, !.stage = stage,
                !.exit = Some(main(kind))]

\* the child operation at path failed with err and keep_going_or_err decides
RestoreChildFailed(rec, path, err, left) ==
    LET Noted(r) ==
            IF keep_going_or_err(rec.keep_going) = "None"
            THEN RestoreGoesOn([r EXCEPT !.skipped = @ \cup {path}], left)
            ELSE RestoreFailed(r, "Program", "child")
    IN  Noted([rec EXCEPT !.failures = @ \cup {[path |-> path, err |-> err]}])

\* restore(context, args) up to its call of restore_dir, for the run rec, with
\* args.snapshot one of snapshots; io_errors: whether the read of the snapshot
\* may fail with an I/O error
RestoreCall(rec, snapshots, io_errors) ==
    \E snapshot \in snapshots, keep_going \in BOOLEAN, no_override_files \in BOOLEAN,
       io_error \in io_errors :
         LET Resolved(r, res) ==
                 IF res.err # "None" THEN RestoreFailed(r, res.err, "resolve")
                 ELSE RestoreGoesOn(r, {DirTask(<<>>, Inline(res.root.val))})
         IN  /\ io_error => faults < MaxFaults
             /\ faults' = IF io_error THEN faults + 1 ELSE faults
             /\ rst' = Resolved([rec EXCEPT !.snapshot = snapshot,
                                            !.keep_going = keep_going,
                                            !.no_override_files = no_override_files,
                                            !.empty_target = DOMAIN tgt \subseteq {<<>>},
                                            !.before = tgt, !.faulted = io_error],
                                RestoreResolve(fs, ArchiveName, snapshot, io_error))

\* restore is called for the first snapshot, once the backup runs have ended
RestoreStart ==
    /\ rst.pc = "idle"
    /\ \A r \in Runs : ~Active(r)
    /\ RestoreCall(rst, FirstSnapshot, {FALSE})
    /\ UNCHANGED <<fs, src, tgt, run, clock, bf>>
    /\ UNCHANGED clientVars

\* restore is called on a store as it is
RestoreCommand ==
    /\ rst.pc = "idle"
    /\ RestoreCall(rst, SnapshotArgs, BOOLEAN)
    /\ UNCHANGED <<fs, src, tgt, run, clock, bf>>
    /\ UNCHANGED clientVars

\* run(args) fails before restore is called: the config file cannot be read or
\* parsed (parse_archive_config), or the storage cannot be made (create_storage)
RestoreSetupFails ==
    /\ rst.pc = "idle"
    /\ \E kind \in {"User", "System"} : rst' = RestoreFailed(rst, kind, "setup")
    /\ UNCHANGED <<fs, src, tgt, run, clock, faults, bf>>
    /\ UNCHANGED clientVars

\* restore is called once more, after the first call has returned
RestoreAgain ==
    /\ rst.pc \in {"done", "failed"}
    /\ ~rst.again
    /\ RestoreCall([IdleRestore EXCEPT
                       !.again = TRUE,
                       !.first = [pc |-> rst.pc, snapshot |-> rst.snapshot,
                                  clean |-> rst.failures = {} /\ ~rst.faulted]],
                   SnapshotArgs, BOOLEAN)
    /\ UNCHANGED <<fs, src, tgt, run, clock, bf>>
    /\ UNCHANGED clientVars

\* a restore_dir that makes its directory in the place of whatever is there
restore_dir_target_replace(tree, target) ==
    LET kept == IF target \in DOMAIN tree /\ tree[target].kind # "dir"
                THEN { x \in DOMAIN tree : target \notin Prefixes(x) }
                ELSE DOMAIN tree
    IN  [err |-> "None", tgt |-> Put([q \in kept |-> tree[q]], target, DirNode)]

\* the match on fs::metadata(target) at the head of restore_dir: a target that is
\* no directory is a conflict, a target that is not there is made with create_dir,
\* a directory is left as it is
restore_dir_target(tree, target) ==
    IF target \in DOMAIN tree
    THEN [err |-> IF tree[target].kind # "dir" THEN "FileSystemConflict" ELSE "None",
          tgt |-> tree]
    ELSE [err |-> "None", tgt |-> Put(tree, target, DirNode)]

\* restore_dir up to its try_join_all, for the root or as the task of a sub
\* directory: the content is resolved (io_error: the read of a by-hash content
\* fails), the directory is made, the tasks are made
RestoreDir(t) ==
    /\ rst.pc = "run"
    /\ t \in rst.tasks /\ t.kind = "dir"
    /\ \E io_error \in BOOLEAN :
         LET made == restore_dir_target(tgt, t.path)
             left == rst.tasks \ {t}
             Called(rec) == [rec EXCEPT !.called = @ \cup {t.path}]
             Made(fetched, err) ==
                 /\ tgt' = IF fetched.err = "None" THEN made.tgt ELSE tgt
                 /\ rst' = IF fetched.err # "None"
                           THEN RestoreFailed([rst EXCEPT !.faulted = @ \/ io_error,
                                                          !.failures = @ \cup
                                                    {[path |-> t.path, err |-> fetched.err]}],
                                              fetched.err, "content")
                           ELSE IF err = "None"
                                THEN RestoreGoesOn(Called(rst),
                                                   left \cup TasksOf(fetched.val, t.path))
                           ELSE IF t.path = <<>> THEN RestoreFailed(Called(rst), err, "root")
                           ELSE RestoreChildFailed(Called(rst), t.path, err, left)
             Fetched(fetched) ==
                 Made(fetched,
                      IF made.err # "None" THEN made.err
                      ELSE IF \E i \in 1..Len(fetched.val.sub_dir) :
                                  fetched.val.sub_dir[i].content.kind = "None"
                           THEN "Corrupt"
                      ELSE "None")
         IN  /\ io_error => t.entry.kind = "Hash" /\ faults < MaxFaults
             /\ faults' = IF io_error THEN faults + 1 ELSE faults
             /\ Fetched(IF t.entry.kind # "Hash" THEN [err |-> "None", val |-> t.entry.val]
                        ELSE IF io_error THEN [err |-> "System", val |-> <<>>]
                        ELSE get_dir_entry(fs, t.entry.val))
    /\ UNCHANGED <<fs, src, run, clock, bf>>
    /\ UNCHANGED clientVars

\* the task of a file: restore_file, then keep_going_or_err
RestoreFile(t) ==
    /\ rst.pc = "run"
    /\ t \in rst.tasks /\ t.kind = "file"
    /\ \E failAt \in 0..Len(t.entry.chunk_hash) :
         LET left == rst.tasks \ {t}
             Noted(rec, res) ==
                 IF res.err = "None" THEN RestoreGoesOn(rec, left)
                 ELSE RestoreChildFailed(rec, t.path, res.err, left)
             Ended(res) ==
                 /\ tgt' = res.tgt
                 /\ rst' = Noted([rst EXCEPT !.faulted = @ \/ failAt > 0,
                                             !.opened = IF res.opened THEN @ \cup {t.path}
                                                        ELSE @],
                                 res)
         IN  /\ failAt > 0 => faults < MaxFaults
             /\ faults' = IF failAt > 0 THEN faults + 1 ELSE faults
             /\ Ended(restore_file(fs, tgt, t.entry, t.path, rst.keep_going,
                                    rst.no_override_files, failAt))
    /\ UNCHANGED <<fs, src, run, clock, bf>>
    /\ UNCHANGED clientVars

(***************************************************************************)
(* backup_file on its own: one file that is backed up, touched and edited, *)
(* each call having the FileEntry of the call before as its previous one.  *)
(***************************************************************************)
\* the modified times of the file are 1..MaxTime
MaxTime == 2
FileTimes == 1..MaxTime
FileBytes == { <<>>, <<1>>, <<2>>, <<1, 2, 1>> }
FilePath == <<"a.txt">>

\* no call yet; else the inputs of the latest call (node, previous, before: the
\* store), its result, and the FileEntry the next call has as its previous one
NoCall ==
    [called |-> FALSE, node |-> FileNode(<<>>, 0), previous |-> NoneOpt, before |-> NewStore,
     err |-> "None", entry |-> NoneOpt, opened |-> FALSE, writes |-> 0, last |-> NoneOpt]

FileInit ==
    /\ fs = NewStore
    /\ handle = [w \in Writers |-> NoHandle]
    /\ wr = [w \in Writers |-> IdleCall]
    /\ finished = {}
    /\ calls = 0
    /\ lastRead = NoRead
    /\ src \in { [p \in {FilePath} |-> FileNode(b, m)] : b \in FileBytes, m \in FileTimes }
    /\ tgt = NoTree
    /\ run = [r \in Runs |-> IdleRun]
    /\ rst = IdleRestore
    /\ clock = 0
    /\ faults = 0
    /\ bf = NoCall

\* backup_file is called on the file
FileBackup ==
    /\ \E failAt \in 0..Len(Chunks(src[FilePath].bytes)) :
         LET Ended(res) ==
                 /\ failAt > 0 => res.err # "None" /\ faults < MaxFaults
                 /\ faults' = IF failAt > 0 THEN faults + 1 ELSE faults
                 /\ fs' = res.fs
                 /\ bf' = [called |-> TRUE, node |-> src[FilePath], previous |-> bf.last,
                           before |-> fs, err |-> res.err,
                           entry |-> IF res.err = "None" THEN Some(res.entry) ELSE NoneOpt,
                           opened |-> res.opened, writes |-> res.writes,
                           last |-> IF res.err = "None" THEN Some(res.entry) ELSE bf.last]
         IN  Ended(backup_file(fs, Last(FilePath), src[FilePath], bf.last, <<"r1">>, failAt))
    /\ UNCHANGED <<src, tgt, run, rst, clock>>
    /\ UNCHANGED clientVars

\* the file is touched: its modified time changes, its content does not
FileTouch ==
    /\ \E m \in FileTimes \ {src[FilePath].modified} :
         src' = [src EXCEPT ![FilePath].modified = m]
    /\ UNCHANGED <<fs, tgt, run, rst, clock, faults, bf>>
    /\ UNCHANGED clientVars

\* the file is written: its content changes, and its modified time may
FileEdit ==
    /\ \E b \in FileBytes \ {src[FilePath].bytes}, m \in FileTimes :
         src' = [src EXCEPT ![FilePath] = FileNode(b, m)]
    /\ UNCHANGED <<fs, tgt, run, rst, clock, faults, bf>>
    /\ UNCHANGED clientVars

FileNext == FileBackup \/ FileTouch \/ FileEdit

SpecFile == FileInit /\ [][FileNext]_vars


(***************************************************************************)
(* restore on its own: a store that holds the snapshot a/1 of the tree     *)
(* root/{a.txt, sub/{b.txt}}, the sub directory embedded or stored by hash *)
(* (the data model has both), and a target; restore is called, and called  *)
(* once more after it has returned.                                        *)
(***************************************************************************)
Hash(hash) == [kind |-> "Hash", val |-> hash]

\* the FileEntry of a file of the snapshot
FileEntryOf(name, node) ==
    [name |-> name, content_hash |-> Sha256Hex(Raw(node.bytes)),
     chunk_hash |-> [i \in 1..Len(Chunks(node.bytes)) |->
                        Sha256Hex(Raw(Chunks(node.bytes)[i]))],
     size |-> Len(node.bytes), modified |-> node.modified]

\* the store after the items were written to it, one after the other
RECURSIVE WriteEach(_, _)
WriteEach(f, items) ==
    IF items = <<>> THEN f
    ELSE WriteEach(StorageWriteAll(f, Head(items).collection, Head(items).key,
                                   Head(items).content, <<"r1">>).fs,
                   Tail(items))

Item(collection, key, content) == [collection |-> collection, key |-> key, content |-> content]

ChunkItems(bytes) ==
    [i \in 1..Len(Chunks(bytes)) |->
        Item("blob", Sha256Hex(Raw(Chunks(bytes)[i])), Raw(Chunks(bytes)[i]))]

\* the store that holds the snapshot a/1 of root/{a.txt: a, sub/{b.txt: b}}
StoreOf(a, b, by_hash) ==
    LET Rooted(sub, root) ==
            WriteEach(NewStore,
                      ChunkItems(a) \o ChunkItems(b)
                      \o (IF by_hash THEN <<Item("blob", Sha256Hex(sub), sub)>> ELSE <<>>)
                      \o <<Item("blob", Sha256Hex(root), root),
                           Item("snapshot", SnapshotName(ArchiveName, <<"1">>),
                                Encode("Snapshot", [root_hash |-> Sha256Hex(root),
                                                    started |-> 10, finished |-> 11]))>>)
        Sub(sub) ==
            Rooted(sub,
                   Encode("DirEntry",
                          [sub_dir |-> <<[name |-> "sub",
                                          content |-> IF by_hash THEN Hash(Sha256Hex(sub))
                                                      ELSE Inline(sub.val)]>>,
                           file |-> <<FileEntryOf("a.txt", FileNode(a, 1))>>,
                           size |-> Len(a) + Len(b)]))
    IN  Sub(Encode("DirEntry", [sub_dir |-> <<>>,
                                file |-> <<FileEntryOf("b.txt", FileNode(b, 2))>>,
                                size |-> Len(b)]))

\* a store that has lost the blob of the hash
LoseBlob(f, hash) == [f EXCEPT !.files = Remove(@, get_item_path("blob", hash).path)]

\* the stores of the snapshot of a three byte a.txt that have lost one of its chunks
DamagedStores ==
    { LoseBlob(StoreOf(<<1, 2, 1>>, b, FALSE), Sha256Hex(Raw(Chunks(<<1, 2, 1>>)[i]))) :
        b \in BBytes, i \in 1..Len(Chunks(<<1, 2, 1>>)) }

RestoreStores ==
    { StoreOf(a, b, by_hash) : a \in ABytes, b \in BBytes, by_hash \in BOOLEAN }
    \cup DamagedStores

\* the targets of TargetTrees, a directory in which sub is a file, a target that
\* is a file itself, and a directory that holds sub and files of its own
RestoreTargets ==
    TargetTrees \cup
    { [p \in {<<>>, <<"sub">>} |-> IF p = <<>> THEN DirNode ELSE FileNode(<<2>>, 5)],
      [p \in {<<>>} |-> FileNode(<<2>>, 5)],
      [p \in {<<>>, <<"c.txt">>, <<"sub">>, <<"sub", "c.txt">>} |->
          IF p # <<>> /\ Last(p) = "c.txt" THEN FileNode(<<2>>, 5) ELSE DirNode] }

RestoreInit ==
    /\ fs \in RestoreStores
    /\ handle = [w \in Writers |-> NoHandle]
    /\ wr = [w \in Writers |-> IdleCall]
    /\ finished = {}
    /\ calls = 0
    /\ lastRead = NoRead
    /\ src = NoTree
    /\ tgt \in RestoreTargets
    /\ run = [r \in Runs |-> IdleRun]
    /\ rst = IdleRestore
    /\ clock = 20
    /\ faults = 0
    /\ bf = NoCall

RestoreNext ==
    \/ RestoreSetupFails
    \/ RestoreCommand
    \/ RestoreAgain
    \/ \E t \in rst.tasks : RestoreDir(t)
    \/ \E t \in rst.tasks : RestoreFile(t)

SpecRestore == RestoreInit /\ [][RestoreNext]_vars

(***************************************************************************)
(* backup and restore together (tests/backup.rs)                           *)
(***************************************************************************)
BackupInit ==
    /\ fs = NewStore
    /\ handle = [w \in Writers |-> NoHandle]
    /\ wr = [w \in Writers |-> IdleCall]
    /\ finished = {}
    /\ calls = 0
    /\ lastRead = NoRead
    /\ src \in SourceTrees
    /\ tgt \in TargetTrees
    /\ run = [r \in Runs |-> IdleRun]
    /\ rst = IdleRestore
    /\ clock = 10
    /\ faults = 0
    /\ bf = NoCall

BackupNext ==
    \/ \E r \in Runs : BackupStart(r)
    \/ \E r \in Runs, d \in DOMAIN src : BackupDirList(r, d)
    \/ \E r \in Runs, p \in DOMAIN src : BackupFile(r, p)
    \/ \E r \in Runs, d \in DOMAIN src : BackupDirJoin(r, d)
    \/ \E r \in Runs : PersistRoot(r)
    \/ \E r \in Runs : RegisterList(r)
    \/ \E r \in Runs : RegisterWrite(r)
    \/ \E r \in Runs : RegisterFinish(r)
    \/ RestoreStart
    \/ \E t \in rst.tasks : RestoreDir(t)
    \/ \E t \in rst.tasks : RestoreFile(t)

SpecBackup == BackupInit /\ [][BackupNext]_vars

(***************************************************************************)
(* The tasks of backup_dir in one process.  backup_dir is called on a tree *)
(* with or without a previous DirEntry; every entry of a directory gets a  *)
(* task, the file tasks share the permits of BACKUP_FILE_OPENS, try_join   *)
(* returns the results in the order the tasks were made, and the first     *)
(* error ends the run and drops the tasks still pending.  A task is        *)
(* "stat" (made), "waiting" (acquire pending), "open" (permit held, file   *)
(* open), "done" or "dropped".                                             *)
(***************************************************************************)
\* root/{a.txt, b.txt, c.txt, sub/{b.txt}, tmp/{}}
TaskTree ==
    [p \in {<<>>, <<"a.txt">>, <<"b.txt">>, <<"c.txt">>, <<"sub">>, <<"sub", "b.txt">>,
            <<"tmp">>} |->
        CASE p = <<"a.txt">> -> FileNode(<<1>>, 1)
          [] p = <<"b.txt">> -> FileNode(<<1, 2, 1>>, 2)
          [] p = <<"c.txt">> -> FileNode(<<2>>, 2)
          [] p = <<"sub", "b.txt">> -> FileNode(<<1>>, 2)
          [] OTHER -> DirNode]

\* the tree of the backup before: a.txt is as it is now, b.txt was touched since,
\* c.txt was written since, and sub/b.txt was not there
PreviousTree ==
    [p \in {<<>>, <<"a.txt">>, <<"b.txt">>, <<"c.txt">>, <<"sub">>} |->
        CASE p = <<"a.txt">> -> FileNode(<<1>>, 1)
          [] p = <<"b.txt">> -> FileNode(<<1, 2, 1>>, 1)
          [] p = <<"c.txt">> -> FileNode(<<1>>, 1)
          [] OTHER -> DirNode]

\* the DirEntry of the backup before and the store that holds its chunks
PreviousDirEntry ==
    [sub_dir |-> <<[name |-> "sub",
                    content |-> Inline([sub_dir |-> <<>>, file |-> <<>>, size |-> 0])]>>,
     file |-> <<FileEntryOf("a.txt", PreviousTree[<<"a.txt">>]),
                FileEntryOf("b.txt", PreviousTree[<<"b.txt">>]),
                FileEntryOf("c.txt", PreviousTree[<<"c.txt">>])>>,
     size |-> 5]

PreviousStore ==
    WriteEach(NewStore, ChunkItems(PreviousTree[<<"a.txt">>].bytes)
                        \o ChunkItems(PreviousTree[<<"b.txt">>].bytes)
                        \o ChunkItems(PreviousTree[<<"c.txt">>].bytes))

\* the names in the order of String::cmp, as a sequence
RECURSIVE Ascending(_)
Ascending(names) ==
    IF names = {} THEN <<>>
    ELSE LET m == CHOOSE x \in names : \A y \in names : NameIdx(x) <= NameIdx(y)
         IN  <<m>> \o Ascending(names \ {m})

Reverse(seq) == [i \in 1..Len(seq) |-> seq[Len(seq) + 1 - i]]
Rotate(seq) == IF seq = <<>> THEN <<>> ELSE Tail(seq) \o <<Head(seq)>>

\* the orders in which read_dir may return the entries called names
ReadDirOrders(names) ==
    { Ascending(names), Reverse(Ascending(names)), Rotate(Rotate(Ascending(names))) }

\* a sort that leaves the sequence as it is
sort_by_unsorted(entries) == entries

\* Vec::sort_by(|a, b| a.name.cmp(&b.name)): a stable insertion sort
RECURSIVE sort_by(_)
sort_by(entries) ==
    IF entries = <<>> THEN <<>>
    ELSE LET Inserted(x, sorted) ==
                 SelectSeq(sorted, LAMBDA y : NameIdx(y.name) < NameIdx(x.name))
                 \o <<x>>
                 \o SelectSeq(sorted, LAMBDA y : NameIdx(y.name) >= NameIdx(x.name))
         IN  Inserted(Head(entries), sort_by(Tail(entries)))

\* the tail of backup_dir for d: order is the order in which the tasks were made,
\* which is the order of the results of try_join_all
backup_dir_join(tree, entries, d, order) ==
    LET sub_dir_tasks ==
            [i \in 1..Len(SelectSeq(order, LAMBDA n : tree[d \o <<n>>].kind = "dir")) |->
                [name |-> SelectSeq(order, LAMBDA n : tree[d \o <<n>>].kind = "dir")[i],
                 content |-> Inline(entries[d \o <<SelectSeq(order,
                                 LAMBDA n : tree[d \o <<n>>].kind = "dir")[i]>>])]]
        file ==
            [i \in 1..Len(SelectSeq(order, LAMBDA n : tree[d \o <<n>>].kind = "file")) |->
                entries[d \o <<SelectSeq(order, LAMBDA n : tree[d \o <<n>>].kind = "file")[i]>>]]
    IN  [sub_dir |-> sort_by(sub_dir_tasks), file |-> sort_by(file),
         size |-> SumDirSizes(sub_dir_tasks) + SumSizes(file)]

\* the file tasks that hold a permit
Holding(rec) == { p \in DOMAIN rec.task : rec.task[p] = "open" }

\* try_join returns the error of a task: the run ends, the tasks still pending are
\* dropped and the permits they hold are given back
TaskFailed(rec, kind, f) ==
    [Failed(rec, kind, f) EXCEPT
        !.permits = add_permits(@, Cardinality(Holding(rec))),
        !.task = [p \in DOMAIN @ |-> IF @[p] = "done" THEN "done" ELSE "dropped"]]

TasksInit ==
    /\ \E previous \in {NoneOpt, Some(PreviousDirEntry)} :
         /\ fs = IF previous.some THEN PreviousStore ELSE NewStore
         /\ run = [r \in Runs |->
                     IF r = "r1"
                     THEN [IdleRun EXCEPT !.pc = "build", !.stage = "build",
                                          !.previous = Put(NoTree, <<>>, previous)]
                     ELSE IdleRun]
    /\ handle = [w \in Writers |-> NoHandle]
    /\ wr = [w \in Writers |-> IdleCall]
    /\ finished = {}
    /\ calls = 0
    /\ lastRead = NoRead
    /\ src = TaskTree
    /\ tgt = NoTree
    /\ rst = IdleRestore
    /\ clock = 10
    /\ faults = 0
    /\ bf = NoCall

\* backup_dir(d) up to its try_join: the previous entries, read_dir, and a task
\* for each entry in the order read_dir returns them
TaskDirList(r, d) ==
    /\ run[r].pc = "build"
    /\ d \in DOMAIN src /\ src[d].kind = "dir"
    /\ d \notin run[r].listed
    /\ d = <<>> \/ Parent(d) \in run[r].listed
    /\ \E io_error \in BOOLEAN,
          order \in ReadDirOrders({ Last(p) : p \in Children(src, d) }) :
         LET Listed(rec, prev) ==
                 IF prev.err # "None" THEN TaskFailed(rec, prev.err, fs)
                 ELSE IF io_error THEN TaskFailed(rec, "System", fs)
                 ELSE IF \E p \in Children(src, d) : src[p].kind = "other"
                      THEN TaskFailed(rec, "Program", fs)
                 ELSE [rec EXCEPT
                          !.listed = @ \cup {d},
                          !.previous = Put(@, d, prev.val),
                          !.order = Put(@, d, order),
                          !.task = [p \in DOMAIN @ \cup
                                          { q \in Children(src, d) : src[q].kind = "file" } |->
                                       IF p \in DOMAIN @ THEN @[p] ELSE "stat"]]
         IN  /\ Inject(r, io_error)
             /\ run' = [run EXCEPT ![r] =
                    Listed(Faulted(run[r], io_error),
                           IF d = <<>> THEN [err |-> "None", val |-> run[r].previous[<<>>]]
                           ELSE PreviousSubDir(fs, run[r].previous[Parent(d)], Last(d)))]
    /\ UNCHANGED <<fs, src, tgt, rst, clock, bf>>
    /\ UNCHANGED clientVars

\* the previous FileEntry of the file at p
PreviousFile(rec, p) ==
    IF rec.previous[Parent(p)].some THEN Find(rec.previous[Parent(p)].val.file, Last(p))
    ELSE NoneOpt

\* backup_file up to the acquire: the metadata is read and compared with the
\* previous entry; a file that matches is done, any other waits for a permit
FileStat(r, p) ==
    /\ run[r].pc = "build"
    /\ p \in DOMAIN run[r].task /\ run[r].task[p] = "stat"
    /\ \E io_error \in BOOLEAN :
         LET Compared(rec, res) ==
                 IF io_error THEN TaskFailed(rec, "System", fs)
                 ELSE IF ~res.opened
                      THEN [rec EXCEPT !.task[p] = "done", !.entries = Put(@, p, res.entry)]
                 ELSE [rec EXCEPT !.task[p] = "waiting"]
         IN  /\ Inject(r, io_error)
             /\ \E res \in {backup_file(fs, Last(p), src[p], PreviousFile(run[r], p),
                                         <<r>>, 0)} :
                  run' = [run EXCEPT ![r] = Compared(Faulted(run[r], io_error), res)]
    /\ UNCHANGED <<fs, src, tgt, rst, clock, bf>>
    /\ UNCHANGED clientVars

\* the acquire of backup_file returns a permit and the file is opened
FileAcquire(r, p) ==
    /\ run[r].pc = "build"
    /\ p \in DOMAIN run[r].task /\ run[r].task[p] = "waiting"
    /\ acquire(run[r].permits)
    /\ \E io_error \in BOOLEAN :
         /\ Inject(r, io_error)
         /\ run' = [run EXCEPT ![r] =
                IF io_error
                THEN TaskFailed([Faulted(run[r], io_error) EXCEPT
                                    !.task[p] = "open", !.permits = @ - 1],
                                "System", fs)
                ELSE [run[r] EXCEPT !.task[p] = "open", !.permits = @ - 1,
                                    !.opened = @ \cup {p}]]
    /\ UNCHANGED <<fs, src, tgt, rst, clock, bf>>
    /\ UNCHANGED clientVars

\* the rest of backup_file: the file is hashed and, unless its hash is the previous
\* one, chunked and uploaded; the permit is dropped with the return
FileRead(r, p) ==
    /\ run[r].pc = "build"
    /\ p \in DOMAIN run[r].task /\ run[r].task[p] = "open"
    /\ \E failAt \in 0..Len(Chunks(src[p].bytes)) :
         LET Returned(rec, res) ==
                 IF res.err # "None" THEN TaskFailed(rec, res.err, res.fs)
                 ELSE [rec EXCEPT !.task[p] = "done", !.entries = Put(@, p, res.entry),
                                  !.permits = add_permits(@, 1),
                                  !.chunk_writes = @ + res.writes]
             Ended(res) ==
                 /\ failAt > 0 => res.err # "None"
                 /\ Inject(r, failAt > 0)
                 /\ fs' = res.fs
                 /\ run' = [run EXCEPT ![r] = Returned(Faulted(run[r], failAt > 0), res)]
         IN  \E res \in {backup_file(fs, Last(p), src[p], PreviousFile(run[r], p),
                                      <<r>>, failAt)} : Ended(res)
    /\ UNCHANGED <<src, tgt, rst, clock, bf>>
    /\ UNCHANGED clientVars

\* backup_dir(d) after its try_join: every task of d has returned
TaskDirJoin(r, d) ==
    /\ run[r].pc = "build"
    /\ d \in run[r].listed
    /\ d \notin DOMAIN run[r].entries
    /\ \A p \in Children(src, d) : p \in DOMAIN run[r].entries
    /\ run' = [run EXCEPT
                  ![r].entries = Put(@, d, backup_dir_join(src, run[r].entries, d,
                                                           run[r].order[d])),
                  ![r].pc = IF d = <<>> THEN "persist" ELSE "build",
                  ![r].stage = IF d = <<>> THEN "persist" ELSE "build"]
    /\ UNCHANGED <<fs, src, tgt, rst, clock, faults, bf>>
    /\ UNCHANGED clientVars

TasksNext ==
    \/ \E r \in Runs, d \in DOMAIN src : TaskDirList(r, d)
    \/ \E r \in Runs, p \in DOMAIN src : FileStat(r, p)
    \/ \E r \in Runs, p \in DOMAIN src : FileAcquire(r, p)
    \/ \E r \in Runs, p \in DOMAIN src : FileRead(r, p)
    \/ \E r \in Runs, d \in DOMAIN src : TaskDirJoin(r, d)
    \/ \E r \in Runs : PersistRoot(r)
    \/ \E r \in Runs : RegisterList(r)
    \/ \E r \in Runs : RegisterWrite(r)
    \/ \E r \in Runs : RegisterFinish(r)

SpecTasks == TasksInit /\ [][TasksNext]_vars

\* the runtime polls a task that can take a step, and the calls of the store return
FairTasks == SpecTasks /\ WF_vars(TasksNext)

(***************************************************************************)
(* Stored bytes that do not decode: restore, and the parts of backup that  *)
(* read the previous snapshot, on stores in which a message of the         *)
(* snapshot a/1 was replaced.                                              *)
(***************************************************************************)
\* the store f with the content of the key replaced
Replaced(f, collection, key, content) ==
    [f EXCEPT !.files[get_item_path(collection, key).path] = content]

\* the DirEntry of sub and the root DirEntry of the snapshot a/1 of
\* root/{sub/{b.txt}} with sub by hash
SubMessage == Encode("DirEntry", [sub_dir |-> <<>>,
                                  file |-> <<FileEntryOf("b.txt", FileNode(<<1>>, 2))>>,
                                  size |-> 1])
RootMessage(content) ==
    Encode("DirEntry", [sub_dir |-> <<[name |-> "sub", content |-> content]>>,
                        file |-> <<>>, size |-> 1])

\* the store that holds the snapshot a/1 with the root message
SnapshotStore(root) ==
    WriteEach(NewStore,
              ChunkItems(<<1>>)
              \o <<Item("blob", Sha256Hex(SubMessage), SubMessage),
                   Item("blob", Sha256Hex(root), root),
                   Item("snapshot", SnapshotName(ArchiveName, <<"1">>),
                        Encode("Snapshot", [root_hash |-> Sha256Hex(root),
                                            started |-> 10, finished |-> 11]))>>)

\* the store as written; with the bytes of the Snapshot, of the root DirEntry or
\* of the DirEntry of sub replaced by bytes that are no such message; and with a
\* root whose SubDirEntry has no content
UndecodableStores ==
    LET root == RootMessage(Hash(Sha256Hex(SubMessage)))
        intact == SnapshotStore(root)
    IN  { intact,
          Replaced(intact, "snapshot", SnapshotName(ArchiveName, <<"1">>), Raw(<<1>>)),
          Replaced(intact, "blob", Sha256Hex(root), Raw(<<1>>)),
          Replaced(intact, "blob", Sha256Hex(SubMessage), Raw(<<1>>)),
          SnapshotStore(RootMessage([kind |-> "None", val |-> <<>>])) }

DecodeInit ==
    /\ fs \in UndecodableStores
    /\ handle = [w \in Writers |-> NoHandle]
    /\ wr = [w \in Writers |-> IdleCall]
    /\ finished = {}
    /\ calls = 0
    /\ lastRead = NoRead
    /\ src = [p \in {<<>>, <<"sub">>} |-> DirNode]
    /\ tgt \in {NoTree}
    /\ run = [r \in Runs |-> IdleRun]
    /\ rst = IdleRestore
    /\ clock = 20
    /\ faults = 0
    /\ bf = NoCall

\* backup from the point where previous_snapshot_number is known to be 1
BackupResolve(r) ==
    /\ run[r].pc = "idle"
    /\ \E io_error \in BOOLEAN :
         LET Resolved(rec, prev) ==
                 IF io_error THEN Failed(rec, "System", fs)
                 ELSE IF prev.err # "None" THEN Failed(rec, prev.err, fs)
                 ELSE [rec EXCEPT !.pc = "build", !.stage = "build",
                                  !.previous = Put(NoTree, <<>>, prev.root)]
         IN  /\ Inject(r, io_error)
             /\ \E prev \in {previous_snapshot_root(fs, ArchiveName, 1)} :
                    run' = [run EXCEPT ![r] =
                               Resolved([Faulted(run[r], io_error) EXCEPT
                                            !.started = clock, !.stage = "resolve"],
                                        prev)]
    /\ clock' = clock + 1
    /\ UNCHANGED <<fs, src, tgt, rst, bf>>
    /\ UNCHANGED clientVars

DecodeNext ==
    \/ BackupResolve("r1")
    \/ \E d \in DOMAIN src : BackupDirList("r1", d)
    \/ RestoreCommand
    \/ \E t \in rst.tasks : RestoreDir(t)
    \/ \E t \in rst.tasks : RestoreFile(t)

SpecDecode == DecodeInit /\ [][DecodeNext]_vars

(***************************************************************************)
(* The registration loop of backup on a store that holds Snapshot keys     *)
(* already, written through Storage::write by earlier users of the store.  *)
(***************************************************************************)
\* keys of the Snapshot collection: of the archive with a number (the last is
\* u32::MAX), of the archive without a number, of another archive, of three
\* segments, of one segment
RegistrarKeys ==
    << <<"a", "/", "1">>, <<"a", "/", "2">>,
       SnapshotName(ArchiveName, FormatU32(U32Max)),
       <<"a", "/", "x">>, <<"b", "/", "7">>, <<"a", "/", "3", "/", "2">>,
       <<"a", "1", "2">> >>

\* the Snapshot written under key
SnapshotItem(key) ==
    Item("snapshot", key,
         Encode("Snapshot", [root_hash |-> Sha256Hex(Raw(<<1>>)), started |-> 1, finished |-> 2]))

\* the store after the keys numbered chosen were written and finished, in the
\* order of RegistrarKeys
RegistrarStore(chosen) ==
    LET keys == SelectSeq([i \in 1..Len(RegistrarKeys) |-> i], LAMBDA i : i \in chosen)
    IN  WriteEach(NewStore, [i \in 1..Len(keys) |-> SnapshotItem(RegistrarKeys[keys[i]])])

\* the history of those writes
RegistrarHistory(chosen) ==
    { [path |-> get_item_path("snapshot", RegistrarKeys[i]).path,
       data |-> SnapshotItem(RegistrarKeys[i]).content, how |-> "finished",
       collection |-> "snapshot", key |-> RegistrarKeys[i]] : i \in chosen }

\* backup has persisted its root and enters the registration loop
RegisterInit ==
    /\ \E chosen \in SUBSET (1..Len(RegistrarKeys)) :
         /\ fs = RegistrarStore(chosen)
         /\ finished = RegistrarHistory(chosen)
    /\ run = [r \in Runs |->
                IF r = "r1"
                THEN [IdleRun EXCEPT !.pc = "register", !.stage = "register",
                                     !.started = 10,
                                     !.snapshot = [root_hash |-> Sha256Hex(Raw(<<2>>)),
                                                   started |-> 10, finished |-> 11],
                                     !.keys_before = SnapshotKeys(fs)]
                ELSE IdleRun]
    /\ handle = [w \in Writers |-> NoHandle]
    /\ wr = [w \in Writers |-> IdleCall]
    /\ calls = 0
    /\ lastRead = NoRead
    /\ src = NoTree
    /\ tgt = NoTree
    /\ rst = IdleRestore
    /\ clock = 12
    /\ faults = 0
    /\ bf = NoCall

RegisterNext ==
    \/ \E r \in Runs : RegisterList(r)
    \/ \E r \in Runs : RegisterWrite(r)
    \/ \E r \in Runs : RegisterFinish(r)

SpecRegister == RegisterInit /\ [][RegisterNext]_vars

(***************************************************************************)
(* xor_byte_hash (storage/util.rs) on byte sequences.                      *)
(***************************************************************************)
\* a ^ b on u8
BitXor(a, b) ==
    LET bit(j) == ((a \div 2^j) + (b \div 2^j)) % 2
        sum[j \in 0..8] == IF j = 8 THEN 0 ELSE bit(j) * 2^j + sum[j + 1]
    IN  sum[0]

\* a << n on u8, n < 8: the bits shifted out are lost
Shl(a, n) == (a * 2^n) % 256
\* a >> n on u8
Shr(a, n) == a \div 2^n

\* nibble_char
nibble_char(nibble) == HexChars[nibble + 1]

\* a hash that shifts the bytes and leaves out the bits shifted out
xor_byte_hash_shifted(data) ==
    LET output[n \in 0..Len(data)] ==
            IF n = 0 THEN 0 ELSE BitXor(output[n - 1], Shl(data[n], (n - 1) % 8))
    IN  <<nibble_char(Shr(output[Len(data)], 4) % 16), nibble_char(output[Len(data)] % 16)>>

\* xor_byte_hash: output[n] is the value of output after the loop has run for
\* i = 0 .. n - 1; the result is the two hex characters of the final output
xor_byte_hash(data) ==
    LET step(out, byte, i) ==
            IF i % 8 # 0 THEN BitXor(BitXor(out, Shl(byte, i % 8)), Shr(byte, 8 - (i % 8)))
            ELSE BitXor(out, Shl(byte, i % 8))
        output[n \in 0..Len(data)] ==
            IF n = 0 THEN 0 ELSE step(output[n - 1], data[n], n - 1)
    IN  <<nibble_char(Shr(output[Len(data)], 4) % 16), nibble_char(output[Len(data)] % 16)>>

\* "Hello World!".as_bytes()
HelloWorld == <<72, 101, 108, 108, 111, 32, 87, 111, 114, 108, 100, 33>>

\* the byte sequences hashed: the prefixes of "Hello World!", every sequence of
\* one byte, and the sequences of two of the bytes 0x00, 0x01, 0x80, 0xff
ShardInputs ==
    { SubSeq(HelloWorld, 1, n) : n \in 0..Len(HelloWorld) }
    \cup { <<b>> : b \in 0..255 }
    \cup { <<b, c>> : b, c \in {0, 1, 128, 255} }

NoHash == [pc |-> "input", data |-> <<>>, hash |-> <<>>, of |-> <<>>, was |-> <<>>]

ShardInit ==
    /\ bf \in { [NoHash EXCEPT !.data = d] : d \in ShardInputs }
    /\ fs = NewStore
    /\ handle = [w \in Writers |-> NoHandle]
    /\ wr = [w \in Writers |-> IdleCall]
    /\ finished = {}
    /\ calls = 0
    /\ lastRead = NoRead
    /\ src = NoTree
    /\ tgt = NoTree
    /\ run = [r \in Runs |-> IdleRun]
    /\ rst = IdleRestore
    /\ clock = 0
    /\ faults = 0

\* xor_byte_hash(data) is called
ShardHash ==
    /\ bf.pc = "input"
    /\ bf' = [bf EXCEPT !.pc = "hashed", !.hash = xor_byte_hash(bf.data)]
    /\ UNCHANGED <<fs, src, tgt, run, rst, clock, faults>>
    /\ UNCHANGED clientVars

\* xor_byte_hash is called once more, on the data with the byte at i changed to v
ShardHashChanged ==
    /\ bf.pc = "hashed"
    /\ \E i \in 1..Len(bf.data) : \E v \in (0..255) \ {bf.data[i]} :
         \E data \in {[bf.data EXCEPT ![i] = v]} :
            bf' = [pc |-> "changed", data |-> data, hash |-> xor_byte_hash(data),
                   of |-> bf.data, was |-> bf.hash]
    /\ UNCHANGED <<fs, src, tgt, run, rst, clock, faults>>
    /\ UNCHANGED clientVars

ShardNext == ShardHash \/ ShardHashChanged

SpecShard == ShardInit /\ [][ShardNext]_vars

(***************************************************************************)
(* Claims about the store                                                  *)
(***************************************************************************)
ItemPath(collection, key) == get_item_path(collection, key).path
ValidKeys == { k \in StoreKeys : Len(k) > 2 }
\* the write of client w was finished by this step
FinishStep(w) == wr[w].pc = "open" /\ wr'[w].pc = "done" /\ wr'[w].res = "Ok"

\* C2: a read of a key fails with NotFound or returns the complete bytes of one
\* finished write; while the first write of a key is in progress a read returns
\* NotFound; after a write has finished a read returns the bytes written.
C2_ReadAtomic ==
    /\ \A c \in Collections, k \in ValidKeys :
         LET r == FileStorageRead(fs, c, k)
         IN  \/ r.res = "NotFound"
             \/ /\ r.res = "Ok"
                /\ \E h \in finished : /\ h.how = "finished"
                                        /\ h.path = ItemPath(c, k)
                                        /\ Raw(h.data) = r.bytes
    /\ \A w \in Writers :
         /\ wr[w].pc = "open"
         /\ \A h \in finished : h.path # handle[w].new_path
         /\ \A v \in Writers \ {w} : ~handle[v].open
         => FileStorageRead(fs, wr[w].collection, wr[w].key).res = "NotFound"
    /\ \A w \in Writers :
         /\ wr[w].pc = "done" /\ wr[w].res = "Ok"
         /\ \A v \in Writers \ {w} : wr[v].pc = "idle"
         => FileStorageRead(fs, wr[w].collection, wr[w].key)
                = [res |-> "Ok", bytes |-> Raw(wr[w].data)]

\* C3: a write to a key that has content fails with AlreadyExists, and once a key
\* has content (of finished writes only) no write call that is finished later
\* changes the bytes read for it.
C3_WriteOnce ==
    [][ /\ \A w \in Writers : wr'[w].existed => wr'[w].res = "AlreadyExists"
        /\ \A w \in Writers : FinishStep(w) =>
              \A c \in Collections, k \in ValidKeys :
                 /\ FileStorageRead(fs, c, k).res = "Ok"
                 /\ \A h \in finished : h.path = ItemPath(c, k) => h.how = "finished"
                 => FileStorageRead(fs', c, k) = FileStorageRead(fs, c, k) ]_vars

\* every write call made so far on the path carries the bytes b and none was aborted
OnlyBytes(path, b) ==
    /\ \A h \in finished : h.path = path => h.data = b /\ h.how = "finished"
    /\ \A w \in Writers : handle[w].open /\ handle[w].new_path = path => wr[w].data = b

\* C4: two write calls on one key with identical bytes each end in success or
\* AlreadyExists, and a read of the key returns NotFound or exactly those bytes,
\* and exactly those bytes once one of the calls has ended.
C4_DuplicateWriteSafe ==
    \A w \in Writers : \A v \in Writers \ {w} :
       /\ wr[w].pc # "idle" /\ wr[v].pc # "idle"
       /\ wr[w].collection = wr[v].collection /\ wr[w].key = wr[v].key
       /\ wr[w].data = wr[v].data
       /\ Len(wr[w].key) > 2
       /\ OnlyBytes(ItemPath(wr[w].collection, wr[w].key), wr[w].data)
       => LET r == FileStorageRead(fs, wr[w].collection, wr[w].key)
          IN  /\ wr[w].pc = "done" => wr[w].res \in {"Ok", "AlreadyExists"}
              /\ r.res \in {"NotFound", "Ok"}
              /\ r.res = "Ok" => r.bytes = Raw(wr[w].data)
              /\ wr[w].pc = "done" => r.res = "Ok"

\* both calls held a handle at the same time and both were finished
C4_Witness ==
    /\ wr["w1"].pc = "done" /\ wr["w1"].res = "Ok"
    /\ wr["w2"].pc = "done" /\ wr["w2"].res = "Ok"
    /\ wr["w1"].collection = wr["w2"].collection /\ wr["w1"].key = wr["w2"].key
    /\ wr["w1"].data = wr["w2"].data
    /\ calls = 2
    /\ OnlyBytes(ItemPath(wr["w1"].collection, wr["w1"].key), wr["w1"].data)

(***************************************************************************)
(* Claims about backup_file (under SpecFile)                               *)
(***************************************************************************)
\* the latest call had a previous FileEntry whose size or modified time differs
\* from the file's
MetadataDiffers ==
    /\ bf.called /\ bf.previous.some
    /\ \/ bf.previous.val.modified # bf.node.modified
       \/ bf.previous.val.size # Len(bf.node.bytes)

SameContent == Sha256Hex(Raw(bf.node.bytes)) = bf.previous.val.content_hash

\* C9: when the modified time (or the size) differs from the previous FileEntry
\* and the whole-file hash equals its content_hash, backup_file hashes the file,
\* issues no chunk write, and returns the previous chunk_hash list and content_hash
\* with the new size and modified time.
C9_TouchDetection ==
    MetadataDiffers /\ SameContent =>
        /\ bf.err = "None"
        /\ bf.opened
        /\ bf.writes = 0
        /\ fs = bf.before
        /\ bf.entry = Some([name |-> Last(FilePath),
                            content_hash |-> bf.previous.val.content_hash,
                            chunk_hash |-> bf.previous.val.chunk_hash,
                            size |-> Len(bf.node.bytes),
                            modified |-> bf.node.modified])

\* a file of two chunks was touched and backed up again
C9_Witness ==
    /\ MetadataDiffers /\ SameContent
    /\ Len(bf.previous.val.chunk_hash) = 2
    /\ bf.entry.some /\ bf.entry.val.modified # bf.previous.val.modified

\* C10 as stated: when the content differs from the previous FileEntry's (and the
\* size or the modified time differs), the FileEntry returned has another
\* content_hash and at least one chunk write was issued.
C10_ContentChange ==
    MetadataDiffers /\ ~SameContent /\ bf.err = "None" =>
        /\ bf.entry.val.content_hash # bf.previous.val.content_hash
        /\ bf.writes >= 1

\* C10, amended: the same, for a file that is not empty after the change; an empty
\* file has no chunk, so none is written, and its chunk_hash list is empty.
C10_ContentChangeNonEmpty ==
    /\ MetadataDiffers /\ ~SameContent /\ bf.err = "None" /\ bf.node.bytes # <<>> =>
          /\ bf.entry.val.content_hash # bf.previous.val.content_hash
          /\ bf.entry.val.content_hash = Sha256Hex(Raw(bf.node.bytes))
          /\ bf.writes >= 1
          /\ bf.writes = Len(bf.entry.val.chunk_hash)
    /\ MetadataDiffers /\ ~SameContent /\ bf.err = "None" /\ bf.node.bytes = <<>> =>
          /\ bf.entry.val.content_hash # bf.previous.val.content_hash
          /\ bf.writes = 0 /\ bf.entry.val.chunk_hash = <<>>

\* the content changed, the size did not, and the new content was uploaded
C10_Witness ==
    /\ MetadataDiffers /\ ~SameContent /\ bf.err = "None"
    /\ bf.node.bytes # <<>>
    /\ bf.previous.val.size = Len(bf.node.bytes)
    /\ bf.writes >= 1

(***************************************************************************)
(* Claims about the commands (under SpecBackup)                            *)
(***************************************************************************)
\* the run r ran alone on the empty store and succeeded, and the restore of the
\* snapshot it registered, into an empty or absent target, succeeded; no I/O error
RoundTripOf(r) ==
    /\ run[r].pc = "done"
    /\ \A q \in Runs \ {r} : run[q].pc = "idle"
    /\ rst.pc = "done" /\ rst.empty_target
    /\ SnapshotName(ArchiveName, rst.snapshot) = run[r].snapshot_name
    /\ faults = 0

C5_DistinctNumbers ==
    \A r \in Runs : \A q \in Runs \ {r} :
        run[r].pc = "done" /\ run[q].pc = "done" =>
            /\ run[r].snapshot_name # run[q].snapshot_name
            /\ FileStorageRead(fs, "snapshot", run[r].snapshot_name)
                 = [res |-> "Ok", bytes |-> Encode("Snapshot", run[r].snapshot)]

\* the run r began when no other run was in progress, none began before it ended,
\* no I/O error was injected into it, and the tree has regular files and
\* directories only
Sequential(r) ==
    /\ run[r].pc # "idle"
    /\ ~run[r].overlapped /\ ~run[r].faulted
    /\ \A p \in DOMAIN src : src[p].kind # "other"

\* C6: a backup of an archive without a snapshot succeeds and registers
\* "<archive>/1", and the k-th of a sequence of non-overlapping backups registers
\* "<archive>/k".
C6_SequentialNumbers ==
    \A r \in Runs :
        Sequential(r) /\ run[r].pc \in {"done", "failed"} =>
            /\ run[r].pc = "done"
            /\ run[r].snapshot_name =
                   SnapshotName(ArchiveName, FormatU32(Cardinality(run[r].after) + 1))
            /\ run[r].wrote = {ItemPath("snapshot", run[r].snapshot_name)}

\* C7: a backup run that fails before registration (resolution of the previous
\* snapshot, tree building, a chunk upload, root persistence) returns an error and
\* leaves the keys of the Snapshot collection as they were before the run.
C7_NoPartialSnapshot ==
    \A r \in Runs :
        run[r].err # "None" /\ run[r].failed_at \in {"resolve", "build", "persist"} =>
            /\ run[r].pc = "failed"
            /\ run[r].wrote = {}
            /\ run[r].handle = NoHandle
            /\ ~run[r].overlapped => run[r].keys_after = run[r].keys_before

\* a run failed on a chunk upload after another run had registered a snapshot
C7_Witness ==
    \E r \in Runs : /\ run[r].pc = "failed" /\ run[r].failed_at = "build"
                    /\ run[r].err = "System" /\ run[r].chunk_writes > 0
                    /\ run[r].keys_before # {} /\ ~run[r].overlapped

\* C8: a backup of the unchanged tree after a successful one has the same root
\* hash; it reuses every FileEntry, opens no file, issues no chunk write, absorbs
\* the AlreadyExists of the root write, and succeeds.
C8_Idempotent ==
    \A r \in Runs : \A q \in run[r].after :
        Sequential(r) =>
            /\ run[r].opened = {}
            /\ run[r].chunk_writes = 0
            /\ run[r].pc \in {"done", "failed"} =>
                  /\ run[r].pc = "done"
                  /\ run[r].absorbed
                  /\ run[r].snapshot.root_hash = run[q].snapshot.root_hash

\* C19: a write handle released without finish leaves no content under its key,
\* so every key that has content has it from a finished write; and when no write
\* is in progress the tmp directory holds no file
C19_AbortCleanup ==
    /\ \A c \in Collections, k \in ValidKeys :
          IsFile(fs, ItemPath(c, k))
          => \E h \in finished : h.path = ItemPath(c, k) /\ h.how = "finished"
    /\ (\A w \in Writers : ~handle[w].open)
       => \A p \in DOMAIN fs.files : p[1] # "tmp"

\* the key does not meet the constraint of the contract: it has two characters or
\* less, or a character outside the filesystem-safe ones
InvalidKey(k) == Len(k) <= 2 \/ \E i \in 1..Len(k) : k[i] = "NUL"
\* the step is a write call of client w
WriteCall(w) == calls' = calls + 1 /\ wr'[w] # wr[w]

\* C20: a write or a read whose key has two characters or less, or a character
\* outside the filesystem-safe ones, fails with InvalidInput, and the write makes
\* no file and no directory in the store
C20_KeyValidation ==
    [][ /\ \A w \in Writers :
              (WriteCall(w) /\ InvalidKey(wr'[w].key))
              => /\ wr'[w].pc = "done"
                 /\ wr'[w].res = "InvalidInput"
                 /\ fs' = fs
        /\ \A c \in Collections, k \in UncheckedKeys :
              InvalidKey(k) => FileStorageRead(fs', c, k).res = "InvalidInput" ]_vars

\* C20 for the length alone holds: those calls fail with InvalidInput and leave the
\* store as it was
KeyTooShort ==
    [][ /\ \A w \in Writers :
              (WriteCall(w) /\ Len(wr'[w].key) <= 2)
              => /\ wr'[w].pc = "done"
                 /\ wr'[w].res = "InvalidInput"
                 /\ fs' = fs
        /\ \A c \in Collections, k \in UncheckedKeys :
              Len(k) <= 2 => FileStorageRead(fs', c, k).res = "InvalidInput" ]_vars

(***************************************************************************)
(* Claims about restore                                                    *)
(***************************************************************************)
APath == <<"a.txt">>
BPath == <<"sub", "b.txt">>
RestoreEnded == rst.pc \in {"done", "failed"}
\* the key <archive>/<snapshot> of the restore has no content in the store
SnapshotAbsent ==
    ~IsFile(fs, ItemPath("snapshot", SnapshotName(ArchiveName, rst.snapshot)))
\* the FileEntry the snapshot a/1 records for a.txt, and the bytes of an entry
RecordedA ==
    Find(RestoreResolve(fs, ArchiveName, <<"1">>, FALSE).root.val.file, "a.txt").val
RecordedBytes(file_entry) == RestoreChunks(fs, file_entry.chunk_hash, <<>>, FALSE, 0).bytes
\* the node does not match the entry in both size and modified time
Differs(node, file_entry) ==
    Len(node.bytes) # file_entry.size \/ node.modified # file_entry.modified
\* when the restore started, a file was at a.txt that differs from the recorded entry
DifferingFile ==
    /\ ~SnapshotAbsent
    /\ APath \in DOMAIN rst.before
    /\ rst.before[APath].kind = "file"
    /\ Differs(rst.before[APath], RecordedA)

\* C11: a restore with no_override_files set and keep_going unset, into a target
\* where a file differs from the recorded FileEntry, fails with a
\* FileSystemConflict error and leaves the bytes of the file as they were
C11_ConflictFails ==
    (/\ RestoreEnded /\ ~rst.faulted
     /\ rst.no_override_files /\ ~rst.keep_going
     /\ DifferingFile)
    => /\ rst.pc = "failed"
       /\ rst.err = "FileSystemConflict"
       /\ tgt[APath].bytes = rst.before[APath].bytes

\* C12: a restore with no_override_files unset, into a target where a file differs
\* from the recorded FileEntry, succeeds and the file then holds the recorded
\* content; with no_override_files set, a file that is absent is created with the
\* recorded content
C12_OverwriteAllowed ==
    /\ (/\ RestoreEnded /\ ~rst.faulted
        /\ ~rst.no_override_files
        /\ DifferingFile)
       => /\ rst.pc = "done"
          /\ tgt[APath].bytes = RecordedBytes(RecordedA)
    /\ (/\ RestoreEnded /\ ~rst.faulted
        /\ rst.no_override_files
        /\ ~SnapshotAbsent
        /\ DOMAIN rst.before \subseteq {<<>>})
       => /\ rst.pc = "done"
          /\ APath \in DOMAIN tgt
          /\ tgt[APath].bytes = RecordedBytes(RecordedA)

\* the restore is the second one of the snapshot, the first one having succeeded
SecondRestore ==
    /\ rst.again /\ RestoreEnded /\ ~rst.faulted
    /\ rst.first.pc = "done"
    /\ rst.first.snapshot = rst.snapshot

\* C13 as stated: after a restore that returned success, a second restore of the
\* same snapshot into the same target, whatever its arguments, succeeds, opens no
\* file for writing and leaves the target as it was
C13_Idempotent ==
    SecondRestore => rst.pc = "done" /\ rst.opened = {} /\ tgt = rst.before

\* C13: after a restore that returned success without passing over a failed
\* entry, a second restore of the same snapshot into the same target, whatever
\* its arguments, succeeds, opens no file for writing and leaves every file's
\* bytes, size and modified time as they were
C13_IdempotentComplete ==
    (SecondRestore /\ rst.first.clean)
    => rst.pc = "done" /\ rst.opened = {} /\ tgt = rst.before

\* a second restore ended in a target the first one had filled with both files
C13_Witness ==
    /\ SecondRestore /\ rst.first.clean
    /\ rst.pc = "done"
    /\ BPath \in DOMAIN tgt
    /\ tgt[APath] = FileNode(RecordedBytes(RecordedA), RecordedA.modified)
    /\ Len(tgt[APath].bytes) = 3

\* C14: with keep_going set the failure of a child operation of restore_dir (a
\* file, a sub directory, the resolution of a by-hash sub directory) is passed
\* over, the other entries are restored and restore succeeds; with keep_going unset
\* the failure of a child makes restore fail
C14_KeepGoing ==
    /\ (RestoreEnded /\ rst.keep_going /\ rst.stage \notin {"setup", "resolve", "root"})
       => /\ rst.pc = "done"
          /\ APath \notin rst.skipped => APath \in DOMAIN tgt
          /\ (<<"sub">> \notin rst.skipped /\ BPath \notin rst.skipped)
             => BPath \in DOMAIN tgt
    /\ (RestoreEnded /\ ~rst.keep_going /\ rst.failures # {}) => rst.pc = "failed"

\* C18: once the command has returned, the process has ended; if the command
\* returned an error the error was printed and the exit status is not zero, and the
\* exit status is zero only if the command returned success
C18_ExitStatus ==
    RestoreEnded
    => /\ rst.exit.some
       /\ rst.err # "None" => rst.exit.val.printed /\ rst.exit.val.exit_status # 0
       /\ rst.exit.val.exit_status = 0 => rst.err = "None"

\* C15: a restore whose snapshot key is absent from the Snapshot collection fails
\* with a User error and the target is as it was; a restore whose read of the
\* snapshot fails otherwise fails with a System error
C15_SnapshotNotFound ==
    /\ (RestoreEnded /\ rst.stage # "setup" /\ SnapshotAbsent /\ ~rst.faulted)
       => rst.pc = "failed" /\ rst.err = "User" /\ tgt = rst.before
    /\ (RestoreEnded /\ rst.faulted /\ rst.stage = "resolve")
       => rst.pc = "failed" /\ rst.err = "System" /\ tgt = rst.before

\* a restore of the absent snapshot a/2 into a target that does not exist has failed
C15_Witness ==
    /\ rst.pc = "failed" /\ rst.err = "User" /\ rst.stage = "resolve"
    /\ rst.snapshot = <<"2">> /\ SnapshotAbsent
    /\ tgt = NoTree

(***************************************************************************)
(* Claims about the registration loop                                      *)
(***************************************************************************)
\* the highest n for which the key <archive>/<n> has content in the store
HighestStored(f) ==
    SetMax({ n \in 1..MAX_LOOP_ITERATIONS :
               IsFile(f, ItemPath("snapshot", SnapshotName(ArchiveName, FormatU32(n)))) })

\* C16: after a registration write that failed with AlreadyExists the run lists the
\* Snapshot collection again and its next write is at <archive>/<max+1>, max being
\* the highest number then stored for the archive; a run that has ended, with an
\* error or with its snapshot written, makes no further attempt
C16_RetryProtocol ==
    [][\A r \in Runs :
         /\ (run[r].pc = "write" /\ run'[r].pc \notin {"write", "finish", "failed"})
            => /\ run'[r].pc = "register"
               /\ run'[r].attempt = run[r].attempt + 1
               /\ fs' = fs
         /\ (run[r].pc = "register" /\ run[r].attempt > 0 /\ run'[r].pc = "write")
            => run'[r].snapshot_name =
                   SnapshotName(ArchiveName, FormatU32(HighestStored(fs) + 1))
         /\ (run[r].pc \in {"done", "failed"} /\ run[r].stage = "register")
            => /\ run'[r].pc = run[r].pc
               /\ run'[r].attempt = run[r].attempt
               /\ run'[r].wrote = run[r].wrote]_vars

\* C17: the registration loop makes at most MAX_LOOP_ITERATIONS attempts; a run
\* whose every attempt failed with AlreadyExists ends after exactly that many with a
\* Program error, holding no handle and having written no Snapshot entry; a run
\* that ended in success has written its Snapshot entry
C17_RetryBudget ==
    \A r \in Runs :
        /\ run[r].attempt <= MAX_LOOP_ITERATIONS
        /\ run[r].attempt = MAX_LOOP_ITERATIONS
           => run[r].pc = "failed" /\ run[r].err = "Program"
        /\ (run[r].pc = "failed" /\ run[r].err = "Program" /\ run[r].failed_at = "register")
           => /\ run[r].attempt = MAX_LOOP_ITERATIONS
              /\ run[r].wrote = {}
              /\ run[r].handle = NoHandle
              /\ ~run[r].overlapped => run[r].keys_after = run[r].keys_before
        /\ run[r].pc = "done"
           => /\ Cardinality(run[r].wrote) = 1
              /\ run[r].attempt < MAX_LOOP_ITERATIONS

\* a run has used up the attempts of the registration loop
C17_Witness ==
    \E r \in Runs : /\ run[r].pc = "failed" /\ run[r].err = "Program"
                    /\ run[r].failed_at = "register"
                    /\ run[r].attempt = MAX_LOOP_ITERATIONS
\* no write of the key was opened in the collection
NeverWritten(c, k) ==
    /\ \A h \in finished : ~(h.collection = c /\ h.key = k)
    /\ \A w \in Writers : ~(wr[w].pc = "open" /\ wr[w].collection = c /\ wr[w].key = k)

OtherCollection(c) == CHOOSE d \in Collections : d # c

\* C21: reading a key that was never written in the given collection fails with
\* NotFound, whatever other keys the collection holds and whether or not the same
\* key is in the other collection.
C21_ReadUnknown ==
    /\ \A c \in Collections, k \in ValidKeys :
          NeverWritten(c, k) => FileStorageRead(fs, c, k).res = "NotFound"
    /\ lastRead.res # "None" /\ lastRead.key \in ValidKeys
       /\ NeverWritten(lastRead.collection, lastRead.key)
       => lastRead.res = "NotFound"

\* a read of a never written key returned while the collection holds another key and
\* the other collection holds the same key
C21_Witness ==
    /\ lastRead.res = "NotFound"
    /\ lastRead.key \in ValidKeys
    /\ NeverWritten(lastRead.collection, lastRead.key)
    /\ IsFile(fs, ItemPath(OtherCollection(lastRead.collection), lastRead.key))
    /\ \E k \in ValidKeys \ {lastRead.key} : IsFile(fs, ItemPath(lastRead.collection, k))

\* every write opened so far was finished
AllFinished ==
    /\ \A h \in finished : h.how = "finished"
    /\ \A w \in Writers : wr[w].pc # "open"

\* C22: after any sequence of finished writes, listing a collection succeeds and
\* returns exactly the keys written to that collection, each as it was passed to
\* write (a Snapshot key "<archive>/<n>" included), and no key of the other
\* collection; the listing of a collection without entries is empty.
C22_Enumeration ==
    AllFinished =>
        \A c \in Collections :
            /\ FileStorageList(fs, c).err = "None"
            /\ FileStorageList(fs, c).items = { h.key : h \in { g \in finished : g.collection = c } }

\* the hash is a key of the Blob collection
InBlob(f, hash) == IsFile(f, ItemPath("blob", hash))

\* every chunk of every FileEntry reachable from the DirEntry is in Blob
RECURSIVE ChunksInBlob(_, _)
ChunksInBlob(f, dir_entry) ==
    /\ \A i \in 1..Len(dir_entry.file) :
          \A j \in 1..Len(dir_entry.file[i].chunk_hash) :
              InBlob(f, dir_entry.file[i].chunk_hash[j])
    /\ \A i \in 1..Len(dir_entry.sub_dir) :
          LET content == dir_entry.sub_dir[i].content
          IN  CASE content.kind = "Inline" -> ChunksInBlob(f, content.val)
                [] content.kind = "Hash" ->
                      /\ InBlob(f, content.val)
                      /\ f.files[ItemPath("blob", content.val)].msg = "DirEntry"
                      /\ ChunksInBlob(f, f.files[ItemPath("blob", content.val)].val)
                [] OTHER -> TRUE

\* C23: for every entry of the Snapshot collection the root_hash is in Blob and so
\* is every chunk hash of every FileEntry reachable from that root; a run writes its
\* chunks before its root blob and its root blob before its Snapshot entry.
C23_ReferentialIntegrity ==
    /\ \A p \in SnapshotKeys(fs) :
          LET snapshot == fs.files[p]
          IN  /\ snapshot.msg = "Snapshot"
              /\ InBlob(fs, snapshot.val.root_hash)
              /\ fs.files[ItemPath("blob", snapshot.val.root_hash)].msg = "DirEntry"
              /\ ChunksInBlob(fs, fs.files[ItemPath("blob", snapshot.val.root_hash)].val)
    /\ \A r \in Runs :
          /\ run[r].pc \in {"persist", "register", "write", "finish", "done"}
             => ChunksInBlob(fs, run[r].entries[<<>>])
          /\ run[r].pc \in {"register", "write", "finish", "done"}
             => InBlob(fs, run[r].snapshot.root_hash)

\* a snapshot is registered whose a.txt has two chunks and whose sub directory has a
\* file with a chunk
C23_Witness ==
    /\ run["r1"].pc = "done"
    /\ SnapshotKeys(fs) # {}
    /\ Len(run["r1"].entries[<<"a.txt">>].chunk_hash) = 2
    /\ Len(run["r1"].entries[<<"sub", "b.txt">>].chunk_hash) = 1

\* C24: restore_file leaves a file that exists untouched and reports success if
\* and only if both its size and its modified time equal those of the FileEntry;
\* a file that differs in size or in modified time is rewritten or rejected.
C24_SkipCondition ==
    \A t \in rst.tasks :
        (t.kind = "file" /\ t.path \in DOMAIN tgt /\ tgt[t.path].kind = "file")
        => LET Skipped(res) == res.err = "None" /\ ~res.opened /\ res.tgt = tgt
           IN  Skipped(restore_file(fs, tgt, t.entry, t.path, rst.keep_going,
                                    rst.no_override_files, 0))
               <=> ~Differs(tgt[t.path], t.entry)

\* the task is a file task whose target path is free
FreeFileTask(t) == t.kind = "file" /\ t.path \notin DOMAIN tgt

\* every chunk the entry names is in Blob
ChunksPresent(file_entry) ==
    \A j \in 1..Len(file_entry.chunk_hash) : InBlob(fs, file_entry.chunk_hash[j])

\* C25: when a chunk named in the chunk_hash of a FileEntry is absent from Blob,
\* restore_file fails for that file with a Corrupt error, whatever keep_going is:
\* it writes no chunk after the missing one, and does not set the modified time,
\* sync and return success.
C25_MissingChunk ==
    \A t \in rst.tasks :
        (FreeFileTask(t) /\ ~ChunksPresent(t.entry))
        => LET Fails(res) ==
                   /\ res.err = "Corrupt"
                   /\ Len(res.ops) < Len(t.entry.chunk_hash)
           IN  Fails(restore_file(fs, tgt, t.entry, t.path, rst.keep_going,
                                  rst.no_override_files, 0))

\* the stored chunks of the hashes, one after the other
RECURSIVE StoredChunks(_)
StoredChunks(chunk_hashes) ==
    IF chunk_hashes = <<>> THEN <<>>
    ELSE fs.files[ItemPath("blob", Head(chunk_hashes))].val \o StoredChunks(Tail(chunk_hashes))

\* C26: for a FileEntry with no, one or more chunks, all of them in Blob, the bytes
\* restore_file writes to the target file are the stored chunks in chunk_hash
\* order, each once: one write_all for each chunk, then set_modified with the
\* recorded time, then sync_all as the last call.
C26_RestoredContent ==
    \A t \in rst.tasks :
        (FreeFileTask(t) /\ ChunksPresent(t.entry))
        => LET Restored(res) ==
                   /\ res.err = "None"
                   /\ res.tgt[t.path] = FileNode(StoredChunks(t.entry.chunk_hash),
                                                 t.entry.modified)
                   /\ res.ops = [i \in 1..Len(t.entry.chunk_hash) |-> "write_all"]
                                \o <<"set_modified", "sync_all">>
           IN  Restored(restore_file(fs, tgt, t.entry, t.path, rst.keep_going,
                                     rst.no_override_files, 0))

\* restore_file has written a file of two chunks, one of one chunk or one of none
C26_WitnessOf(path, n) ==
    /\ rst.pc = "done" /\ ~rst.faulted /\ rst.failures = {}
    /\ path \in rst.opened /\ path \notin DOMAIN rst.before
    /\ Len(Chunks(tgt[path].bytes)) = n
    /\ \A t \in TasksOf(RestoreResolve(fs, ArchiveName, rst.snapshot, FALSE).root.val, <<>>) :
          t.path = path => ChunksPresent(t.entry) /\ tgt[path].bytes = StoredChunks(t.entry.chunk_hash)

C26_Witness == C26_WitnessOf(APath, 2)

\* the windows of CHUNK_SIZE bytes of the bytes, the last one shorter if need be
Chunks_windows(b) ==
    [j \in 1..((Len(b) + ChunkSize - 1) \div ChunkSize) |->
        SubSeq(b, ChunkSize * (j - 1) + 1, Min(ChunkSize * j, Len(b)))]

\* C27: a FileEntry returned by backup_file has ceil(size / CHUNK_SIZE) chunk
\* hashes (none for an empty file); every chunk but the last has CHUNK_SIZE bytes
\* and the last has at least one, however few bytes a read returns; each chunk is
\* in Blob under its own hash; and the chunks together are size bytes whose hash is
\* content_hash.
C27_FileEntryInvariant ==
    /\ bf.entry.some =>
          LET Sound(e) ==
                  /\ Len(e.chunk_hash) = (e.size + ChunkSize - 1) \div ChunkSize
                  /\ \A j \in 1..Len(e.chunk_hash) :
                        /\ InBlob(fs, e.chunk_hash[j])
                        /\ Sha256Hex(fs.files[ItemPath("blob", e.chunk_hash[j])]) = e.chunk_hash[j]
                        /\ Len(StoredChunks(<<e.chunk_hash[j]>>)) =
                              IF j < Len(e.chunk_hash) THEN ChunkSize
                              ELSE e.size - ChunkSize * (j - 1)
                  /\ Len(StoredChunks(e.chunk_hash)) = e.size
                  /\ Sha256Hex(Raw(StoredChunks(e.chunk_hash))) = e.content_hash
          IN  Sound(bf.entry.val)
    /\ bf.called =>
          \A read_len \in 1..(ChunkSize + 1) :
              ChunksBy(bf.node.bytes, read_len) = Chunks_windows(bf.node.bytes)

\* backup_file has uploaded a file of two chunks, the last one short
C27_Witness ==
    /\ bf.entry.some /\ bf.opened
    /\ bf.writes = 2
    /\ bf.entry.val.size = 3
    /\ Len(StoredChunks(<<bf.entry.val.chunk_hash[2]>>)) = 1

(***************************************************************************)
(* Claims about the tasks of backup_dir (under SpecTasks and FairTasks)    *)
(***************************************************************************)
TaskRun == run["r1"]

\* the names of the entries are in ascending order, none twice
AscendingNames(entries) ==
    \A i, j \in 1..Len(entries) : i < j => NameIdx(entries[i].name) < NameIdx(entries[j].name)

\* C28: whatever the order in which the tasks of backup_dir were made and have
\* ended, the DirEntry returned has its sub_dir and its file sequence in ascending
\* order of name, has one entry for each entry of the directory, and has as size
\* the sum of the sizes of its files and of its sub directories; it is the value
\* that the tree and the previous DirEntry determine.
C28_DeterministicDirEntry ==
    \A d \in DOMAIN TaskRun.entries :
        src[d].kind = "dir" =>
            LET Sound(e) ==
                    /\ AscendingNames(e.sub_dir) /\ AscendingNames(e.file)
                    /\ { e.sub_dir[i].name : i \in 1..Len(e.sub_dir) }
                          = { Last(p) : p \in { q \in Children(src, d) : src[q].kind = "dir" } }
                    /\ { e.file[i].name : i \in 1..Len(e.file) }
                          = { Last(p) : p \in { q \in Children(src, d) : src[q].kind = "file" } }
                    /\ e.size = SumSizes(e.file) + SumDirSizes(e.sub_dir)
                    /\ e = DirEntryOf(src, TaskRun.entries, d)
                    /\ \A i \in 1..Len(e.file) :
                          e.file[i] = backup_file(NewStore, e.file[i].name,
                                                  src[d \o <<e.file[i].name>>],
                                                  PreviousFile(TaskRun, d \o <<e.file[i].name>>),
                                                  <<"r1">>, 0).entry
            IN  Sound(TaskRun.entries[d])

\* the root was joined after read_dir had returned its entries in another order than
\* that of the names
C28_Witness ==
    /\ <<>> \in DOMAIN TaskRun.entries
    /\ ~AscendingNames([i \in 1..Len(TaskRun.order[<<>>]) |-> [name |-> TaskRun.order[<<>>][i]]])
    /\ Len(TaskRun.entries[<<>>].file) = 3
    /\ Len(TaskRun.entries[<<>>].sub_dir) = 2

\* C29: at no time more files are open for hashing or chunking than the semaphore
\* has permits, every open file holding one of them; and a file task that reuses
\* the previous entry on matching size and modified time opens no file and takes no
\* permit.
C29_BoundedOpens ==
    /\ Cardinality(Holding(TaskRun)) <= BACKUP_FILE_OPENS
    /\ TaskRun.permits >= 0
    /\ TaskRun.permits + Cardinality(Holding(TaskRun)) = BACKUP_FILE_OPENS
    /\ \A p \in DOMAIN TaskRun.task :
          LET previous == PreviousFile(TaskRun, p)
          IN  (/\ previous.some
               /\ previous.val.size = Len(src[p].bytes)
               /\ previous.val.modified = src[p].modified)
              => p \notin TaskRun.opened /\ TaskRun.task[p] # "open"

\* every permit is taken, another file task waits for one, and the task of a.txt has
\* reused its previous entry without opening the file
C29_Witness ==
    /\ Cardinality(Holding(TaskRun)) = BACKUP_FILE_OPENS
    /\ TaskRun.permits = 0
    /\ \E p \in DOMAIN TaskRun.task : TaskRun.task[p] = "waiting"
    /\ <<"a.txt">> \in DOMAIN TaskRun.entries
    /\ <<"a.txt">> \notin TaskRun.opened

TaskRunEnded == TaskRun.pc \in {"done", "failed"}

\* C30: every backup run ends, done or failed; no file task holds a permit unless
\* its own file is open, so a task that waits for a permit holds none; and when the
\* run has ended, by whatever exit of backup_file, every permit is back.
C30_Termination ==
    /\ <>TaskRunEnded
    /\ [](TaskRunEnded => /\ TaskRun.permits = BACKUP_FILE_OPENS
                          /\ Holding(TaskRun) = {})
    /\ [](TaskRun.permits + Cardinality(Holding(TaskRun)) = BACKUP_FILE_OPENS)

\* a run has ended done after more files were opened than there are permits
C30_Witness ==
    /\ TaskRun.pc = "done"
    /\ TaskRun.permits = BACKUP_FILE_OPENS
    /\ Cardinality(TaskRun.opened) > BACKUP_FILE_OPENS

(***************************************************************************)
(* Claims about the numbers of the registrar                               *)
(***************************************************************************)
\* the Snapshot keys written to the store and finished
WrittenSnapshotKeys ==
    { w.key : w \in { x \in finished : x.collection = "snapshot" /\ x.how = "finished" } }

\* the numbers n of the keys <archive>/<n> among keys
NumbersOf(keys, archive) ==
    { ParseU32(SubSeq(k, Len(archive) + 2, Len(k))).val :
        k \in { x \in keys :
                  /\ Len(x) > Len(archive) + 1
                  /\ SubSeq(x, 1, Len(archive) + 1) = archive \o <<"/">>
                  /\ \A i \in Len(archive) + 2..Len(x) : x[i] # "/"
                  /\ ParseU32(SubSeq(x, Len(archive) + 2, Len(x))).ok } }

RegisterRun == run["r1"]

\* C31: the number the registrar takes as highest is the maximum n over the
\* Snapshot keys <archive>/<n> of the store, 0 when there is none, so that the key
\* it writes next is <archive>/<max+1>; keys of other shapes or archives change
\* nothing and a run does not fail in its first listing but by an I/O error
C31_RegistrarEnumeration ==
    /\ RegisterRun.pc = "write"
       => RegisterRun.snapshot_name =
              SnapshotName(ArchiveName,
                           FormatU32(SetMax(NumbersOf(WrittenSnapshotKeys, ArchiveName)) + 1))
    /\ (RegisterRun.pc = "failed" /\ RegisterRun.attempt = 0) => RegisterRun.faulted

\* C34: a run that has registered its snapshot has written it under a number above
\* the highest number m the archive had, for every m up to u32::MAX, and no run
\* ends in a panic
C34_NumberArithmetic ==
    /\ RegisterRun.pc = "done"
       => ParseU32(Split(RegisterRun.snapshot_name)[2]).val
              > SetMax(NumbersOf(WrittenSnapshotKeys, ArchiveName))
    /\ RegisterRun.err # "Panic"

(***************************************************************************)
(* Claims about the directories of a restore                               *)
(***************************************************************************)
\* the directories the snapshot a/1 names, and all the paths it names
SnapshotDirs == {<<>>, <<"sub">>}
SnapshotPaths == SnapshotDirs \cup {APath, BPath}

\* the target at the call of restore had something at d that is no directory
TargetConflict(d) == d \in DOMAIN rst.before /\ rst.before[d].kind # "dir"

\* the part of a tree at d and beneath
Beneath(tree, d) ==
    [q \in { x \in DOMAIN tree : d \in Prefixes(x) } |-> tree[q]]

\* restore_dir has returned FileSystemConflict for d
ConflictReturned(d) ==
    IF d = <<>> THEN rst.pc = "failed" /\ rst.stage = "root" /\ rst.err = "FileSystemConflict"
    ELSE [path |-> d, err |-> "FileSystemConflict"] \in rst.failures

\* restore_dir has been called for d in this restore
DirCalled(d) == d \in rst.called

\* C32: restore_dir on a target that is there and is no directory returns
\* FileSystemConflict and leaves the target and all beneath it as they were; on a
\* target that is not there it makes the directory; on a directory it goes on,
\* and whatever the target held that the snapshot does not name stays as it was
C32_TargetDirectory ==
    /\ \A d \in SnapshotDirs :
          /\ ConflictReturned(d)
             => TargetConflict(d) /\ Beneath(tgt, d) = Beneath(rst.before, d)
          /\ (TargetConflict(d) /\ DirCalled(d))
             => ConflictReturned(d) /\ Beneath(tgt, d) = Beneath(rst.before, d)
          /\ (DirCalled(d) /\ ~TargetConflict(d)) => d \in DOMAIN tgt /\ tgt[d] = DirNode
    /\ rst.pc \in {"run", "done", "failed"}
       => \A q \in DOMAIN rst.before \ SnapshotPaths :
              q \in DOMAIN tgt /\ tgt[q] = rst.before[q]

\* a restore that keeps going has ended on a target in which sub is a file: sub was
\* refused with FileSystemConflict and is the file it was, a.txt is restored
C32_Witness ==
    /\ rst.pc = "done" /\ rst.keep_going
    /\ TargetConflict(<<"sub">>) /\ ConflictReturned(<<"sub">>)
    /\ tgt[<<"sub">>] = rst.before[<<"sub">>]
    /\ APath \in DOMAIN tgt /\ APath \notin DOMAIN rst.before

(***************************************************************************)
(* Claims about the class of the errors                                    *)
(***************************************************************************)
\* the key has bytes in the store that do not decode as a message msg
Undecodable(collection, key, msg) ==
    /\ IsFile(fs, get_item_path(collection, key).path)
    /\ Decode(msg, fs.files[get_item_path(collection, key).path]).err # "None"

\* the Snapshot a/1 does not decode; it does and its root DirEntry does not; the
\* DirEntry of sub does not; the SubDirEntry of sub has no content
SnapshotUndecodable == Undecodable("snapshot", SnapshotName(ArchiveName, <<"1">>), "Snapshot")
StoredSnapshot == fs.files[get_item_path("snapshot", SnapshotName(ArchiveName, <<"1">>)).path]
RootUndecodable ==
    ~SnapshotUndecodable /\ Undecodable("blob", StoredSnapshot.val.root_hash, "DirEntry")
SubUndecodable == Undecodable("blob", Sha256Hex(SubMessage), "DirEntry")
StoredRoot == fs.files[get_item_path("blob", StoredSnapshot.val.root_hash).path]
SubWithoutContent ==
    /\ ~SnapshotUndecodable /\ ~RootUndecodable
    /\ StoredRoot.val.sub_dir[1].content.kind = "None"

DecodeRun == run["r1"]

\* C33: a restore or a backup that fails on bytes of the store that do not decode
\* as the Snapshot, as its root DirEntry or as a DirEntry read by hash, and a restore
\* that meets a SubDirEntry without content, fails with an error of class Corrupt;
\* one that fails on an I/O error of the store fails with one of class System
C33_CorruptClass ==
    /\ (rst.pc = "failed" /\ rst.snapshot = <<"1">> /\ ~rst.faulted)
       => /\ (SnapshotUndecodable \/ RootUndecodable \/ SubUndecodable \/ SubWithoutContent)
             => rst.err = "Corrupt"
    /\ (rst.pc = "failed" /\ rst.faulted /\ rst.stage \in {"resolve", "content"})
       => rst.err = "System"
    /\ (rst.pc = "done" /\ rst.snapshot = <<"1">>)
       => ~(SnapshotUndecodable \/ RootUndecodable \/ SubUndecodable \/ SubWithoutContent)
    /\ (DecodeRun.pc = "failed" /\ ~DecodeRun.faulted)
       => DecodeRun.err = "Corrupt"
    /\ (DecodeRun.pc = "failed" /\ DecodeRun.faulted /\ DecodeRun.stage = "resolve")
       => DecodeRun.err = "System"

(***************************************************************************)
(* Claims about xor_byte_hash                                              *)
(***************************************************************************)
\* bit j of the byte b
BitOf(b, j) == (b \div 2^j) % 2

\* bit j of the XOR over the positions i (from 0) of data of the byte at i rotated
\* left by i mod 8: the parity of the bits (j - i) mod 8 of the bytes
RotatedXorBit(data, j) ==
    Cardinality({ p \in 1..Len(data) : BitOf(data[p], (j + 8 - ((p - 1) % 8)) % 8) = 1 }) % 2

RotatedXor(data) ==
    LET sum[j \in 0..8] == IF j = 8 THEN 0 ELSE RotatedXorBit(data, j) * 2^j + sum[j + 1]
    IN  sum[0]

\* C35: xor_byte_hash returns two lowercase hex characters, those of the XOR of
\* the bytes each rotated left by its position mod 8; the same data give the same
\* hash, and data that differ in one byte give another hash
C35_ShardFunction ==
    /\ bf.pc \in {"hashed", "changed"}
       => /\ Len(bf.hash) = 2
          /\ \A k \in 1..2 : \E n \in 1..16 : bf.hash[k] = HexChars[n]
          /\ bf.hash = <<HexChars[(RotatedXor(bf.data) \div 16) + 1],
                         HexChars[(RotatedXor(bf.data) % 16) + 1]>>
          /\ bf.hash = xor_byte_hash(bf.data)
    /\ bf.pc = "changed" => bf.hash # bf.was
    /\ (bf.pc = "hashed" /\ bf.data = HelloWorld) => bf.hash = <<"f", "2">>
    /\ (bf.pc = "changed" /\ bf.data = [HelloWorld EXCEPT ![1] = 88])
       => bf.hash = <<"e", "2">>
    /\ (bf.pc = "changed" /\ bf.data = [HelloWorld EXCEPT ![7] = 88])
       => bf.hash = <<"3", "1">>

\* "Hello World!" was hashed, then "Hello Xorld!", whose changed byte is rotated by
\* six bits
C35_Witness ==
    /\ bf.pc = "changed"
    /\ bf.of = HelloWorld
    /\ bf.data = [HelloWorld EXCEPT ![7] = 88]
    /\ bf.was = <<"f", "2">> /\ bf.hash = <<"3", "1">>

====
